---- MODULE Spec2Model ----
(***************************************************************************)
(* Volume Control Profile (src/shared/vcp.c): the server-role control      *)
(* points of the Volume Control Service (VCS) and the Volume Offset        *)
(* Control Service (VOCS), the registry of local databases and the         *)
(* sessions the control-point writes resolve.                              *)
(***************************************************************************)
EXTENDS Integers, Sequences, FiniteSets, TLC

(***************************************************************************)
(* Bounds of the model.                                                    *)
(***************************************************************************)
\* Number of events (writes, reads, disconnects) of a run of Spec.
MaxSteps == 2
\* Number of events (calls, callbacks, writes, disconnects) of a run of
\* SpecSessions.
MaxOps == 4

(***************************************************************************)
(* Program constants.                                                      *)
(***************************************************************************)
VCP_STEP_SIZE == 1
VOCS_VOL_OFFSET_UPPER_LIMIT == 255
\* Mutant of VOCS_VOL_OFFSET_LOWER_LIMIT: off by one.
LowerLimit_OffByOne == 0 - 256

VOCS_VOL_OFFSET_LOWER_LIMIT == -255

BT_ATT_ERROR_INVALID_CHANGE_COUNTER == 128
BT_ATT_ERROR_OPCODE_NOT_SUPPORTED == 129
BT_ATT_ERROR_VALUE_OUT_OF_RANGE == 130

\* Transport-standard ATT error codes used by the control points.
BT_ATT_ERROR_REQUEST_NOT_SUPPORTED == 6
BT_ATT_ERROR_INVALID_OFFSET == 7
BT_ATT_ERROR_INVALID_ATTRIBUTE_VALUE_LEN == 13

USERSET_VOLUME_SETTING == 1

BT_VCS_REL_VOL_DOWN == 0
BT_VCS_REL_VOL_UP == 1
BT_VCS_UNMUTE_REL_VOL_DOWN == 2
BT_VCS_UNMUTE_REL_VOL_UP == 3
BT_VCS_SET_ABSOLUTE_VOL == 4
BT_VCS_UNMUTE == 5
BT_VCS_MUTE == 6

BT_VOCS_SET_VOL_OFFSET == 1

\* sizeof(uint8_t), sizeof(struct bt_vcs_ab_vol), sizeof(struct bt_vocs_set_vol_off)
SIZEOF_UINT8 == 1
SIZEOF_BT_VCS_AB_VOL == 2
SIZEOF_BT_VOCS_SET_VOL_OFF == 3

(***************************************************************************)
(* Identities of the external collaborators: attribute databases and ATT   *)
(* transports.  NULL is the null pointer of a transport or client field;   *)
(* an optional object is a sequence of length 0 (NULL) or 1.               *)
(***************************************************************************)
GattDbs == {"db1", "db2"}
Atts == {"att1", "att2"}
NULL == "NULL"

VARIABLES
    vcp_db,     \* queue of struct bt_vcp_db (local bindings), in insertion order
    vcps,       \* every struct bt_vcp allocated so far, by allocation index
    sessions,   \* queue of attached sessions (indexes into vcps)
    disc,       \* per transport: the sessions registered for its disconnect
    vcp_cbs,    \* queue of struct bt_vcp_cb (observers), in registration order
    cb_id,      \* the static id counter of bt_vcp_register
    gatt,       \* the remote clients: clones made, requests they were handed
    req,        \* the event delivered last
    pre,        \* vcp_db as it was before that event
    was,        \* the sessions, clients and observers as they were before it
    out,        \* what that event handed to the attribute database, in order
    steps       \* number of events so far

vars == <<vcp_db, vcps, sessions, disc, vcp_cbs, cb_id, gatt, req, pre, was,
          out, steps>>

(***************************************************************************)
(* Integer helpers.                                                        *)
(***************************************************************************)
\* Mutant of MAX: the difference taken as an unsigned byte before comparing.
MAX_Unsigned(a, b) == IF a % 256 > b THEN a % 256 ELSE b

MAX(a, b) == IF a > b THEN a ELSE b
MIN(a, b) == IF a < b THEN a ELSE b

\* Mutant of IncrementCounter: the counter kept in a wider integer.
IncrementCounter_NoWrap(c) == c + 1

\* vstate->counter = -~vstate->counter, stored back into a uint8_t.
IncrementCounter(c) == (c + 1) % 256

\* le16_to_cpu of the two operand bytes, read as int16_t.
le16_to_cpu(lo, hi) ==
    LET u == lo + 256 * hi
    IN  IF u >= 32768 THEN u - 65536 ELSE u

\* cpu_to_le16 of an int16_t: the two bytes put on the wire.
cpu_to_le16(v) ==
    LET u == (v + 65536) % 65536
    IN  <<u % 256, u \div 256>>

(***************************************************************************)
(* iov_pull_mem: NULL (ok = FALSE) when fewer than len bytes remain,       *)
(* otherwise the first len bytes, the iovec advanced past them.            *)
(***************************************************************************)
iov_pull_mem(iov, len) ==
    IF Len(iov) < len
    THEN [ok |-> FALSE, data |-> <<>>, iov |-> iov]
    ELSE [ok |-> TRUE, data |-> SubSeq(iov, 1, len),
          iov |-> SubSeq(iov, len + 1, Len(iov))]

(***************************************************************************)
(* Registry of local databases.                                            *)
(***************************************************************************)
\* vcs_new: a zeroed Volume State, the volume flag set to "user set".
vcs_new ==
    [vstate |-> [vol_set |-> 0, mute |-> 0, counter |-> 0],
     vol_flag |-> USERSET_VOLUME_SETTING]

\* vocs_new: a zeroed Volume Offset State.
vocs_new ==
    [vostate |-> [vol_offset |-> 0, counter |-> 0]]

\* vcp_db_new: a binding for db with its VOCS and VCS, pushed on the queue.
vcp_db_new(q, db) ==
    Append(q, [db |-> db, vcs |-> <<vcs_new>>, vocs |-> <<vocs_new>>])

\* queue_find(vcp_db, vcp_db_match, db): index of the first binding of db, or 0.
vcp_db_find(q, db) ==
    IF \E i \in DOMAIN q : q[i].db = db
    THEN CHOOSE i \in DOMAIN q :
            /\ q[i].db = db
            /\ \A j \in DOMAIN q : q[j].db = db => i <= j
    ELSE 0

\* vcp_get_db: the binding found, or a new one; the queue and the index.
vcp_get_db(q, db) ==
    IF vcp_db_find(q, db) # 0
    THEN [vcp_db |-> q, vdb |-> vcp_db_find(q, db)]
    ELSE [vcp_db |-> vcp_db_new(q, db), vdb |-> Len(q) + 1]

\* vcp_get_vdb: the local binding of a session (0 is NULL).
vcp_get_vdb(vcp) == vcp.ldb

\* vdb_get_vstate / vdb_get_vostate: the state of a binding, or NULL.
vdb_get_vstate(vdb) ==
    IF vdb.vcs = <<>> THEN <<>> ELSE <<vdb.vcs[1].vstate>>

vdb_get_vostate(vdb) ==
    IF vdb.vocs = <<>> THEN <<>> ELSE <<vdb.vocs[1].vostate>>

(***************************************************************************)
(* Sessions.                                                               *)
(***************************************************************************)
\* bt_gatt_client_get_att: the transport of a client (a client is named by it).
bt_gatt_client_get_att(client) == client

\* bt_vcp_get_att: the session's own transport, else its client's.
bt_vcp_get_att(vcp) ==
    IF vcp.att # NULL THEN vcp.att ELSE bt_gatt_client_get_att(vcp.client)

\* queue_remove(q, x): q without its first entry equal to x.
queue_remove(q, x) ==
    IF \E i \in DOMAIN q : q[i] = x
    THEN LET i == CHOOSE k \in DOMAIN q :
                    /\ q[k] = x
                    /\ \A j \in DOMAIN q : q[j] = x => k <= j
         IN  SubSeq(q, 1, i - 1) \o SubSeq(q, i + 1, Len(q))
    ELSE q

\* queue_push_tail on a queue pointer (<<>> is NULL, <<q>> a queue): a NULL
\* queue takes no entry.
queue_push_tail(queue, data) ==
    IF queue = <<>> THEN queue ELSE <<Append(queue[1], data)>>

\* queue_remove_if(queue, NULL, data) on a queue pointer: the queue without
\* its first entry that is data.
queue_remove_if(queue, data) ==
    IF queue = <<>> THEN queue ELSE <<queue_remove(queue[1], data)>>

\* The entries of a queue pointer.
queue_entries(queue) == IF queue = <<>> THEN <<>> ELSE queue[1]

\* bt_vcp_ref on the session record: one more reference.
bt_vcp_ref(vcp) == [vcp EXCEPT !.ref_count = @ + 1]

\* new0(struct bt_vcp) as bt_vcp_new fills it: the local binding, a pending
\* queue, the remote binding if any, and the first reference taken at done:;
\* the notify queue stays NULL.  client is the transport of vcp->client and
\* clone the clone it points to.
vcp_new(vdb, rdb) ==
    bt_vcp_ref(
       [ref_count |-> 0,
        ldb |-> vdb, rdb |-> rdb, att |-> NULL, client |-> NULL, clone |-> 0,
        pending |-> << <<>> >>, notify |-> <<>>,
        vstate_id |-> 0, vflag_id |-> 0, state_id |-> 0, audio_loc_id |-> 0,
        ao_dec_id |-> 0])

\* bt_vcp_new(ldb, rdb): the registry after vcp_get_db(ldb) and the session.
bt_vcp_new(q, ldb, rdb) ==
    LET g == vcp_get_db(q, ldb)
    IN  [vcp_db |-> g.vcp_db,
         vcp |-> vcp_new(g.vdb,
                         IF rdb = NULL THEN <<>>
                         ELSE << [db |-> rdb, vcs |-> <<>>, vocs |-> <<>>] >>)]

\* An operation of a session works on st = [vcps, sessions, gatt, calls]:
\* the sessions, the attached queue, the remote clients and the observer
\* callbacks invoked so far by the running event.
SessionState ==
    [vcps |-> vcps, sessions |-> sessions, gatt |-> gatt, calls |-> <<>>]

\* A call through a null function pointer ends the process.
Crash == [t |-> "crash"]
Crashed(calls) == \E i \in DOMAIN calls : calls[i] = Crash

\* bt_gatt_client_unref of the clone a session holds: the clone is freed,
\* every request it still has is cancelled and its destroy callback runs,
\* vcp_pending_destroy for a read and vcp_notify_destroy for a subscription.
vcp_pending_destroy(st, id) ==
    [st EXCEPT !.vcps[st.gatt.reqs[id].vcp].pending = queue_remove_if(@, id)]

vcp_notify_destroy(st, id) ==
    [st EXCEPT !.vcps[st.gatt.reqs[id].vcp].notify = queue_remove_if(@, id)]

RECURSIVE bt_gatt_client_cancel_all(_, _, _)
bt_gatt_client_cancel_all(st, clone, id) ==
    IF id > Len(st.gatt.reqs) THEN st
    ELSE LET r == st.gatt.reqs[id]
         IN  IF r.clone # clone \/ r.state # "outstanding"
             THEN bt_gatt_client_cancel_all(st, clone, id + 1)
             ELSE LET s1 == [st EXCEPT !.gatt.reqs[id].state = "cancelled"]
                      s2 == IF r.kind = "read" THEN vcp_pending_destroy(s1, id)
                            ELSE vcp_notify_destroy(s1, id)
                  IN  bt_gatt_client_cancel_all(s2, clone, id + 1)

bt_gatt_client_unref(st, clone) ==
    IF clone = 0 THEN st ELSE bt_gatt_client_cancel_all(st, clone, 1)

\* queue_foreach(vcp_cbs, vcp_detached, vcp): cb->detached is called for
\* each observer in turn, also where it is a null pointer.
RECURSIVE vcp_detached(_, _, _)
vcp_detached(calls, cbs, v) ==
    IF cbs = <<>> THEN calls
    ELSE IF ~Head(cbs).detached THEN Append(calls, Crash)
    ELSE vcp_detached(Append(calls, [t |-> "detached", cb |-> Head(cbs).id,
                                     vcp |-> v]),
                      Tail(cbs), v)

\* Mutant of bt_vcp_detach: the client is dropped without being released.
bt_vcp_detach_KeepsClientAlive(st, v) ==
    IF ~(\E i \in DOMAIN st.sessions : st.sessions[i] = v)
    THEN st
    ELSE LET s1 == [st EXCEPT !.sessions = queue_remove(st.sessions, v)]
             s3 == [s1 EXCEPT !.vcps[v].client = NULL, !.vcps[v].clone = 0]
         IN  [s3 EXCEPT !.calls = vcp_detached(@, vcp_cbs, v)]

\* bt_vcp_detach: nothing when the session is not in the attached queue, else
\* its first entry leaves the queue, the client is released and forgotten
\* and the observers' detached callbacks run.
bt_vcp_detach(st, v) ==
    IF ~(\E i \in DOMAIN st.sessions : st.sessions[i] = v)
    THEN st
    ELSE LET s1 == [st EXCEPT !.sessions = queue_remove(st.sessions, v)]
             s2 == bt_gatt_client_unref(s1, s1.vcps[v].clone)
             s3 == [s2 EXCEPT !.vcps[v].client = NULL, !.vcps[v].clone = 0]
         IN  [s3 EXCEPT !.calls = vcp_detached(@, vcp_cbs, v)]

\* Mutant of vcp_get_session: the attached sessions are not searched.
vcp_get_session_AlwaysNew(att, db) ==
    LET g == vcp_get_db(vcp_db, db)
        new == [vcp_new(g.vdb, <<>>) EXCEPT !.att = att]
        v == Len(vcps) + 1
    IN  [vcp |-> v, vcp_db |-> g.vcp_db, vcps |-> Append(vcps, new),
         sessions |-> Append(sessions, v),
         disc |-> [disc EXCEPT ![att] = Append(@, v)]]

\* vcp_get_session: the first attached session of the transport, else a new
\* server-role session bound to db, registered for disconnect and attached.
vcp_get_session(att, db) ==
    IF \E i \in DOMAIN sessions : bt_vcp_get_att(vcps[sessions[i]]) = att
    THEN LET i == CHOOSE k \in DOMAIN sessions :
                    /\ bt_vcp_get_att(vcps[sessions[k]]) = att
                    /\ \A j \in DOMAIN sessions :
                          bt_vcp_get_att(vcps[sessions[j]]) = att => k <= j
         IN  [vcp |-> sessions[i], vcp_db |-> vcp_db, vcps |-> vcps,
              sessions |-> sessions, disc |-> disc]
    ELSE LET g == vcp_get_db(vcp_db, db)
             new == [vcp_new(g.vdb, <<>>) EXCEPT !.att = att]
             v == Len(vcps) + 1
         IN  [vcp |-> v, vcp_db |-> g.vcp_db, vcps |-> Append(vcps, new),
              sessions |-> Append(sessions, v),
              disc |-> [disc EXCEPT ![att] = Append(@, v)]]

(***************************************************************************)
(* The client role: reads and subscriptions handed to the session's clone  *)
(* of the remote client, and the discovery that issues them.  A request is *)
(* named by its index in gatt.reqs, which is the id the client returns.    *)
(***************************************************************************)
\* The remote databases and the characteristics their VCS and VOCS hold, in
\* handle order; rdb1 holds a second Volume State.
RemoteDbs == {"rdb1"}

RemoteChars(rdb) ==
    [vcs |-> << [uuid |-> "VOL_STATE", handle |-> 3],
                [uuid |-> "VOL_CP", handle |-> 6],
                [uuid |-> "VOL_FLAG", handle |-> 8],
                [uuid |-> "VOL_STATE", handle |-> 11] >>,
     vocs |-> << [uuid |-> "VOCS_STATE", handle |-> 15],
                 [uuid |-> "VOCS_AUDIO_LOC", handle |-> 18],
                 [uuid |-> "VOCS_CP", handle |-> 21],
                 [uuid |-> "VOCS_AUDIO_OP_DESC", handle |-> 23] >>]

\* bt_gatt_client_clone(client): one more clone, talking over the same
\* transport; st.gatt.clones names it.
bt_gatt_client_clone(st, client) == [st EXCEPT !.gatt.clones = @ + 1]

\* bt_gatt_client_read_value / bt_gatt_client_register_notify: the request
\* is queued in the clone and its id returned.
GattRequest(st, v, kind, handle, func) ==
    [vcp |-> v, clone |-> st.vcps[v].clone, kind |-> kind, handle |-> handle,
     func |-> func, state |-> "outstanding", fired |-> 0]

\* Mutant of vcp_read_value: the read is sent but not entered in the
\* session's pending queue.
vcp_read_value_NotQueued(st, v, value_handle, func) ==
    [st EXCEPT !.gatt.reqs = Append(@, GattRequest(st, v, "read",
                                                   value_handle, func))]

\* vcp_read_value: the read is sent with vcp_pending_complete and
\* vcp_pending_destroy as its callbacks and entered in vcp->pending.
vcp_read_value(st, v, value_handle, func) ==
    LET id == Len(st.gatt.reqs) + 1
    IN  [st EXCEPT !.gatt.reqs = Append(@, GattRequest(st, v, "read",
                                                       value_handle, func)),
                   !.vcps[v].pending = queue_push_tail(@, id)]

\* vcp_register_notify: the subscription is registered with vcp_notify and
\* vcp_notify_destroy as its callbacks and pushed on vcp->notify; the state
\* afterwards and the id.
vcp_register_notify(st, v, value_handle, func) ==
    LET id == Len(st.gatt.reqs) + 1
    IN  [st |-> [st EXCEPT !.gatt.reqs = Append(@, GattRequest(st, v, "notify",
                                                          value_handle, func)),
                           !.vcps[v].notify = queue_push_tail(@, id)],
         id |-> id]

\* vcp_get_vcs / vcp_get_vocs: the VCS / VOCS of the remote binding,
\* allocated with null handles (0) at first use.
vcp_get_vcs(st, v) ==
    IF st.vcps[v].rdb[1].vcs # <<>> THEN st
    ELSE [st EXCEPT !.vcps[v].rdb[1].vcs =
                       << [vs |-> 0, vol_cp |-> 0, vf |-> 0] >>]

vcp_get_vocs(st, v) ==
    IF st.vcps[v].rdb[1].vocs # <<>> THEN st
    ELSE [st EXCEPT !.vcps[v].rdb[1].vocs =
                       << [vos |-> 0, voal |-> 0, vo_cp |-> 0, voaodec |-> 0] >>]

\* Mutant of foreach_vcs_char: a Volume State that is already bound is bound
\* again, to the later instance.
foreach_vcs_char_BindsEveryInstance(st, v, chrc) ==
    LET s1 == vcp_get_vcs(st, v)
        vcs == s1.vcps[v].rdb[1].vcs[1]
    IN  IF chrc.uuid = "VOL_STATE"
        THEN LET s2 == [s1 EXCEPT !.vcps[v].rdb[1].vcs[1].vs = chrc.handle]
                 s3 == vcp_read_value(s2, v, chrc.handle, "read_vol_state")
                 n == vcp_register_notify(s3, v, chrc.handle,
                                          "vcp_vstate_notify")
             IN  [n.st EXCEPT !.vcps[v].vstate_id = n.id]
        ELSE IF chrc.uuid = "VOL_CP"
        THEN IF vcs.vol_cp # 0 THEN s1
             ELSE [s1 EXCEPT !.vcps[v].rdb[1].vcs[1].vol_cp = chrc.handle]
        ELSE IF chrc.uuid = "VOL_FLAG"
        THEN IF vcs.vf # 0 THEN s1
             ELSE LET s2 == [s1 EXCEPT !.vcps[v].rdb[1].vcs[1].vf = chrc.handle]
                      s3 == vcp_read_value(s2, v, chrc.handle, "read_vol_flag")
                      n == vcp_register_notify(s3, v, chrc.handle,
                                               "vcp_vflag_notify")
                  IN  [n.st EXCEPT !.vcps[v].vflag_id = n.id]
        ELSE st

\* foreach_vcs_char: a characteristic of the remote VCS.
foreach_vcs_char(st, v, chrc) ==
    LET s1 == vcp_get_vcs(st, v)
        vcs == s1.vcps[v].rdb[1].vcs[1]
    IN  IF chrc.uuid = "VOL_STATE"
        THEN IF vcs.vs # 0 THEN s1
             ELSE LET s2 == [s1 EXCEPT !.vcps[v].rdb[1].vcs[1].vs = chrc.handle]
                      s3 == vcp_read_value(s2, v, chrc.handle, "read_vol_state")
                      n == vcp_register_notify(s3, v, chrc.handle,
                                               "vcp_vstate_notify")
                  IN  [n.st EXCEPT !.vcps[v].vstate_id = n.id]
        ELSE IF chrc.uuid = "VOL_CP"
        THEN IF vcs.vol_cp # 0 THEN s1
             ELSE [s1 EXCEPT !.vcps[v].rdb[1].vcs[1].vol_cp = chrc.handle]
        ELSE IF chrc.uuid = "VOL_FLAG"
        THEN IF vcs.vf # 0 THEN s1
             ELSE LET s2 == [s1 EXCEPT !.vcps[v].rdb[1].vcs[1].vf = chrc.handle]
                      s3 == vcp_read_value(s2, v, chrc.handle, "read_vol_flag")
                      n == vcp_register_notify(s3, v, chrc.handle,
                                               "vcp_vflag_notify")
                  IN  [n.st EXCEPT !.vcps[v].vflag_id = n.id]
        ELSE st

\* foreach_vocs_char: a characteristic of the remote VOCS.
foreach_vocs_char(st, v, chrc) ==
    LET s1 == vcp_get_vocs(st, v)
        vocs == s1.vcps[v].rdb[1].vocs[1]
    IN  IF chrc.uuid = "VOCS_STATE"
        THEN IF vocs.vos # 0 THEN s1
             ELSE LET s2 == [s1 EXCEPT !.vcps[v].rdb[1].vocs[1].vos = chrc.handle]
                      s3 == vcp_read_value(s2, v, chrc.handle,
                                           "read_vol_offset_state")
                      n == vcp_register_notify(s3, v, chrc.handle,
                                               "vcp_voffset_state_notify")
                  IN  [n.st EXCEPT !.vcps[v].state_id = n.id]
        ELSE IF chrc.uuid = "VOCS_AUDIO_LOC"
        THEN IF vocs.voal # 0 THEN s1
             ELSE LET s2 == [s1 EXCEPT !.vcps[v].rdb[1].vocs[1].voal = chrc.handle]
                      s3 == vcp_read_value(s2, v, chrc.handle,
                                           "read_vocs_audio_location")
                      n == vcp_register_notify(s3, v, chrc.handle,
                                               "vcp_audio_loc_notify")
                  IN  [n.st EXCEPT !.vcps[v].audio_loc_id = n.id]
        ELSE IF chrc.uuid = "VOCS_CP"
        THEN IF vocs.vo_cp # 0 THEN s1
             ELSE [s1 EXCEPT !.vcps[v].rdb[1].vocs[1].vo_cp = chrc.handle]
        ELSE IF chrc.uuid = "VOCS_AUDIO_OP_DESC"
        THEN IF vocs.voaodec # 0 THEN s1
             ELSE LET s2 == [s1 EXCEPT
                               !.vcps[v].rdb[1].vocs[1].voaodec = chrc.handle]
                      s3 == vcp_read_value(s2, v, chrc.handle,
                                           "read_vocs_audio_descriptor")
                      n == vcp_register_notify(s3, v, chrc.handle,
                                               "vcp_audio_descriptor_notify")
                  IN  [n.st EXCEPT !.vcps[v].ao_dec_id = n.id]
        ELSE st

\* gatt_db_service_foreach_char over the characteristics of a service.
RECURSIVE gatt_db_service_foreach_char(_, _, _, _)
gatt_db_service_foreach_char(st, v, service, chars) ==
    IF chars = <<>> THEN st
    ELSE gatt_db_service_foreach_char(
            IF service = "vcs" THEN foreach_vcs_char(st, v, Head(chars))
            ELSE foreach_vocs_char(st, v, Head(chars)),
            v, service, Tail(chars))

\* foreach_vcs_service / foreach_vocs_service: the service is claimed and its
\* characteristics visited.
foreach_vcs_service(st, v) ==
    gatt_db_service_foreach_char(vcp_get_vcs(st, v), v, "vcs",
                                 RemoteChars(st.vcps[v].rdb[1].db).vcs)

foreach_vocs_service(st, v) ==
    gatt_db_service_foreach_char(vcp_get_vocs(st, v), v, "vocs",
                                 RemoteChars(st.vcps[v].rdb[1].db).vocs)

\* Mutant of bt_vcp_attach: a client already bound is replaced.
bt_vcp_attach_Rebinds(st, v, client) ==
    LET s1 == [st EXCEPT !.sessions = Append(@, v)]
    IN  IF client = NULL THEN [st |-> s1, ret |-> TRUE]
        ELSE LET s2 == bt_gatt_client_clone(s1, client)
                 s3 == [s2 EXCEPT !.vcps[v].client = client,
                                  !.vcps[v].clone = s2.gatt.clones]
             IN  [st |-> foreach_vocs_service(foreach_vcs_service(s3, v), v),
                  ret |-> TRUE]

\* bt_vcp_attach(vcp, client): the session is pushed on the attached queue;
\* with a client, and none bound yet, the client is cloned and the VCS and
\* the VOCS of the remote database discovered.  The state and the result.
bt_vcp_attach(st, v, client) ==
    LET s1 == [st EXCEPT !.sessions = Append(@, v)]
    IN  IF client = NULL THEN [st |-> s1, ret |-> TRUE]
        ELSE IF s1.vcps[v].client # NULL THEN [st |-> s1, ret |-> FALSE]
        ELSE LET s2 == bt_gatt_client_clone(s1, client)
                 s3 == [s2 EXCEPT !.vcps[v].client = client,
                                  !.vcps[v].clone = s2.gatt.clones]
             IN  [st |-> foreach_vocs_service(foreach_vcs_service(s3, v), v),
                  ret |-> TRUE]

(***************************************************************************)
(* Volume Control Point handlers.  Each takes the registry q, the VCS the  *)
(* written attribute belongs to, the session vcp and the operand bytes, and *)
(* yields the ATT result, the registry afterwards and the notifications    *)
(* handed to gatt_db_attribute_notify.                                     *)
(***************************************************************************)
Handled(ret, q, notes) == [ret |-> ret, vcp_db |-> q, out |-> notes]

\* gatt_db_attribute_notify(vdb->vcs->vs, vstate, sizeof(struct vol_state), att)
NotifyVolState(vstate, vcp) ==
    [t |-> "notify", chrc |-> "vs",
     value |-> <<vstate.vol_set, vstate.mute, vstate.counter>>,
     att |-> bt_vcp_get_att(vcp)]

\* gatt_db_attribute_notify(vdb->vocs->vos, vstate, sizeof(struct vol_offset_state), att)
NotifyVolOffsetState(vostate, vcp) ==
    [t |-> "notify", chrc |-> "vos",
     value |-> cpu_to_le16(vostate.vol_offset) \o <<vostate.counter>>,
     att |-> bt_vcp_get_att(vcp)]

SetVstate(q, vdb, vstate) == [q EXCEPT ![vdb].vcs[1].vstate = vstate]
SetVostate(q, vdb, vostate) == [q EXCEPT ![vdb].vocs[1].vostate = vostate]

vcs_rel_vol_down(q, vcs, vcp, iov) ==
    LET vdb == vcp_get_vdb(vcp) IN
    IF vdb = 0 THEN Handled(0, q, <<>>)
    ELSE IF vdb_get_vstate(q[vdb]) = <<>> THEN Handled(0, q, <<>>)
    ELSE LET vstate == vdb_get_vstate(q[vdb])[1]
             change_counter == iov_pull_mem(iov, SIZEOF_UINT8)
         IN  IF ~change_counter.ok THEN Handled(0, q, <<>>)
             ELSE IF change_counter.data[1] # vstate.counter
             THEN Handled(BT_ATT_ERROR_INVALID_CHANGE_COUNTER, q, <<>>)
             ELSE LET new == [vstate EXCEPT
                                !.vol_set = MAX(vstate.vol_set - VCP_STEP_SIZE, 0),
                                !.counter = IncrementCounter(vstate.counter)]
                  IN  Handled(0, SetVstate(q, vdb, new),
                              <<NotifyVolState(new, vcp)>>)

\* Mutant of vcs_rel_vol_up: the volume is stepped but the counter is left
\* as it was.
vcs_rel_vol_up_KeepsCounter(q, vcs, vcp, iov) ==
    LET vdb == vcp_get_vdb(vcp) IN
    IF vdb = 0 THEN Handled(0, q, <<>>)
    ELSE IF vdb_get_vstate(q[vdb]) = <<>> THEN Handled(0, q, <<>>)
    ELSE LET vstate == vdb_get_vstate(q[vdb])[1]
             change_counter == iov_pull_mem(iov, SIZEOF_UINT8)
         IN  IF ~change_counter.ok THEN Handled(0, q, <<>>)
             ELSE IF change_counter.data[1] # vstate.counter
             THEN Handled(BT_ATT_ERROR_INVALID_CHANGE_COUNTER, q, <<>>)
             ELSE LET new == [vstate EXCEPT
                                !.vol_set = MIN(vstate.vol_set + VCP_STEP_SIZE, 255)]
                  IN  Handled(0, SetVstate(q, vdb, new),
                              <<NotifyVolState(new, vcp)>>)

vcs_rel_vol_up(q, vcs, vcp, iov) ==
    LET vdb == vcp_get_vdb(vcp) IN
    IF vdb = 0 THEN Handled(0, q, <<>>)
    ELSE IF vdb_get_vstate(q[vdb]) = <<>> THEN Handled(0, q, <<>>)
    ELSE LET vstate == vdb_get_vstate(q[vdb])[1]
             change_counter == iov_pull_mem(iov, SIZEOF_UINT8)
         IN  IF ~change_counter.ok THEN Handled(0, q, <<>>)
             ELSE IF change_counter.data[1] # vstate.counter
             THEN Handled(BT_ATT_ERROR_INVALID_CHANGE_COUNTER, q, <<>>)
             ELSE LET new == [vstate EXCEPT
                                !.vol_set = MIN(vstate.vol_set + VCP_STEP_SIZE, 255),
                                !.counter = IncrementCounter(vstate.counter)]
                  IN  Handled(0, SetVstate(q, vdb, new),
                              <<NotifyVolState(new, vcp)>>)

\* Mutant of vcs_unmute_rel_vol_down: the mute flag is left as it is.
vcs_unmute_rel_vol_down_KeepsMute(q, vcs, vcp, iov) ==
    LET vdb == vcp_get_vdb(vcp) IN
    IF vdb = 0 THEN Handled(0, q, <<>>)
    ELSE IF vdb_get_vstate(q[vdb]) = <<>> THEN Handled(0, q, <<>>)
    ELSE LET vstate == vdb_get_vstate(q[vdb])[1]
             change_counter == iov_pull_mem(iov, SIZEOF_UINT8)
         IN  IF ~change_counter.ok THEN Handled(0, q, <<>>)
             ELSE IF change_counter.data[1] # vstate.counter
             THEN Handled(BT_ATT_ERROR_INVALID_CHANGE_COUNTER, q, <<>>)
             ELSE LET new == [vstate EXCEPT
                                !.vol_set = MAX(vstate.vol_set - VCP_STEP_SIZE, 0),
                                !.counter = IncrementCounter(vstate.counter)]
                  IN  Handled(0, SetVstate(q, vdb, new),
                              <<NotifyVolState(new, vcp)>>)

vcs_unmute_rel_vol_down(q, vcs, vcp, iov) ==
    LET vdb == vcp_get_vdb(vcp) IN
    IF vdb = 0 THEN Handled(0, q, <<>>)
    ELSE IF vdb_get_vstate(q[vdb]) = <<>> THEN Handled(0, q, <<>>)
    ELSE LET vstate == vdb_get_vstate(q[vdb])[1]
             change_counter == iov_pull_mem(iov, SIZEOF_UINT8)
         IN  IF ~change_counter.ok THEN Handled(0, q, <<>>)
             ELSE IF change_counter.data[1] # vstate.counter
             THEN Handled(BT_ATT_ERROR_INVALID_CHANGE_COUNTER, q, <<>>)
             ELSE LET new == [vstate EXCEPT
                                !.mute = 0,
                                !.vol_set = MAX(vstate.vol_set - VCP_STEP_SIZE, 0),
                                !.counter = IncrementCounter(vstate.counter)]
                  IN  Handled(0, SetVstate(q, vdb, new),
                              <<NotifyVolState(new, vcp)>>)

vcs_unmute_rel_vol_up(q, vcs, vcp, iov) ==
    LET vdb == vcp_get_vdb(vcp) IN
    IF vdb = 0 THEN Handled(0, q, <<>>)
    ELSE IF vdb_get_vstate(q[vdb]) = <<>> THEN Handled(0, q, <<>>)
    ELSE LET vstate == vdb_get_vstate(q[vdb])[1]
             change_counter == iov_pull_mem(iov, SIZEOF_UINT8)
         IN  IF ~change_counter.ok THEN Handled(0, q, <<>>)
             ELSE IF change_counter.data[1] # vstate.counter
             THEN Handled(BT_ATT_ERROR_INVALID_CHANGE_COUNTER, q, <<>>)
             ELSE LET new == [vstate EXCEPT
                                !.mute = 0,
                                !.vol_set = MIN(vstate.vol_set + VCP_STEP_SIZE, 255),
                                !.counter = IncrementCounter(vstate.counter)]
                  IN  Handled(0, SetVstate(q, vdb, new),
                              <<NotifyVolState(new, vcp)>>)

vcs_set_absolute_vol(q, vcs, vcp, iov) ==
    LET vdb == vcp_get_vdb(vcp) IN
    IF vdb = 0 THEN Handled(0, q, <<>>)
    ELSE IF vdb_get_vstate(q[vdb]) = <<>> THEN Handled(0, q, <<>>)
    ELSE LET vstate == vdb_get_vstate(q[vdb])[1]
             req_ == iov_pull_mem(iov, SIZEOF_BT_VCS_AB_VOL)
         IN  IF ~req_.ok THEN Handled(0, q, <<>>)
             ELSE IF req_.data[1] # vstate.counter
             THEN Handled(BT_ATT_ERROR_INVALID_CHANGE_COUNTER, q, <<>>)
             ELSE LET new == [vstate EXCEPT
                                !.vol_set = req_.data[2],
                                !.counter = IncrementCounter(vstate.counter)]
                  IN  Handled(0, SetVstate(q, vdb, new),
                              <<NotifyVolState(new, vcp)>>)

vcs_unmute(q, vcs, vcp, iov) ==
    LET vdb == vcp_get_vdb(vcp) IN
    IF vdb = 0 THEN Handled(0, q, <<>>)
    ELSE IF vdb_get_vstate(q[vdb]) = <<>> THEN Handled(0, q, <<>>)
    ELSE LET vstate == vdb_get_vstate(q[vdb])[1]
             change_counter == iov_pull_mem(iov, SIZEOF_UINT8)
         IN  IF ~change_counter.ok THEN Handled(0, q, <<>>)
             ELSE IF change_counter.data[1] # vstate.counter
             THEN Handled(BT_ATT_ERROR_INVALID_CHANGE_COUNTER, q, <<>>)
             ELSE LET new == [vstate EXCEPT
                                !.mute = 0,
                                !.counter = IncrementCounter(vstate.counter)]
                  IN  Handled(0, SetVstate(q, vdb, new),
                              <<NotifyVolState(new, vcp)>>)

\* Mutant of vcs_mute: it notifies like the other handlers.
vcs_mute_Notifies(q, vcs, vcp, iov) ==
    LET vdb == vcp_get_vdb(vcp) IN
    IF vdb = 0 THEN Handled(0, q, <<>>)
    ELSE IF vdb_get_vstate(q[vdb]) = <<>> THEN Handled(0, q, <<>>)
    ELSE LET vstate == vdb_get_vstate(q[vdb])[1]
             change_counter == iov_pull_mem(iov, SIZEOF_UINT8)
         IN  IF ~change_counter.ok THEN Handled(0, q, <<>>)
             ELSE IF change_counter.data[1] # vstate.counter
             THEN Handled(BT_ATT_ERROR_INVALID_CHANGE_COUNTER, q, <<>>)
             ELSE LET new == [vstate EXCEPT
                                !.mute = 1,
                                !.counter = IncrementCounter(vstate.counter)]
                  IN  Handled(0, SetVstate(q, vdb, new),
                              <<NotifyVolState(new, vcp)>>)

\* The only handler that ends without gatt_db_attribute_notify.
vcs_mute(q, vcs, vcp, iov) ==
    LET vdb == vcp_get_vdb(vcp) IN
    IF vdb = 0 THEN Handled(0, q, <<>>)
    ELSE IF vdb_get_vstate(q[vdb]) = <<>> THEN Handled(0, q, <<>>)
    ELSE LET vstate == vdb_get_vstate(q[vdb])[1]
             change_counter == iov_pull_mem(iov, SIZEOF_UINT8)
         IN  IF ~change_counter.ok THEN Handled(0, q, <<>>)
             ELSE IF change_counter.data[1] # vstate.counter
             THEN Handled(BT_ATT_ERROR_INVALID_CHANGE_COUNTER, q, <<>>)
             ELSE LET new == [vstate EXCEPT
                                !.mute = 1,
                                !.counter = IncrementCounter(vstate.counter)]
                  IN  Handled(0, SetVstate(q, vdb, new), <<>>)

(***************************************************************************)
(* Volume Offset Control Point handler.  The offset is stored before its   *)
(* range is checked.                                                       *)
(***************************************************************************)
\* Mutant of vocs_set_vol_offset: the offset is stored before the counter is
\* compared as well.
vocs_set_vol_offset_StoresFirst(q, vocs, vcp, iov) ==
    LET vdb == vcp_get_vdb(vcp) IN
    IF vdb = 0 THEN Handled(0, q, <<>>)
    ELSE IF vdb_get_vostate(q[vdb]) = <<>> THEN Handled(0, q, <<>>)
    ELSE LET vstate == vdb_get_vostate(q[vdb])[1]
             req_ == iov_pull_mem(iov, SIZEOF_BT_VOCS_SET_VOL_OFF)
         IN  IF ~req_.ok THEN Handled(0, q, <<>>)
             ELSE LET stored == [vstate EXCEPT
                                   !.vol_offset = le16_to_cpu(req_.data[2],
                                                              req_.data[3])]
                  IN  IF req_.data[1] # vstate.counter
                      THEN Handled(BT_ATT_ERROR_INVALID_CHANGE_COUNTER,
                                   SetVostate(q, vdb, stored), <<>>)
                      ELSE IF \/ stored.vol_offset > VOCS_VOL_OFFSET_UPPER_LIMIT
                              \/ stored.vol_offset < VOCS_VOL_OFFSET_LOWER_LIMIT
                      THEN Handled(BT_ATT_ERROR_VALUE_OUT_OF_RANGE,
                                   SetVostate(q, vdb, stored), <<>>)
                      ELSE LET new == [stored EXCEPT
                                         !.counter = IncrementCounter(stored.counter)]
                           IN  Handled(0, SetVostate(q, vdb, new),
                                       <<NotifyVolOffsetState(new, vcp)>>)

\* Mutant of vocs_set_vol_offset: the range is checked before the offset is
\* stored, so a rejected offset leaves the stored state as it was.
vocs_set_vol_offset_ChecksFirst(q, vocs, vcp, iov) ==
    LET vdb == vcp_get_vdb(vcp) IN
    IF vdb = 0 THEN Handled(0, q, <<>>)
    ELSE IF vdb_get_vostate(q[vdb]) = <<>> THEN Handled(0, q, <<>>)
    ELSE LET vstate == vdb_get_vostate(q[vdb])[1]
             req_ == iov_pull_mem(iov, SIZEOF_BT_VOCS_SET_VOL_OFF)
         IN  IF ~req_.ok THEN Handled(0, q, <<>>)
             ELSE IF req_.data[1] # vstate.counter
             THEN Handled(BT_ATT_ERROR_INVALID_CHANGE_COUNTER, q, <<>>)
             ELSE LET stored == [vstate EXCEPT
                                   !.vol_offset = le16_to_cpu(req_.data[2],
                                                              req_.data[3])]
                  IN  IF \/ stored.vol_offset > VOCS_VOL_OFFSET_UPPER_LIMIT
                         \/ stored.vol_offset < VOCS_VOL_OFFSET_LOWER_LIMIT
                      THEN Handled(BT_ATT_ERROR_VALUE_OUT_OF_RANGE, q, <<>>)
                      ELSE LET new == [stored EXCEPT
                                         !.counter = IncrementCounter(stored.counter)]
                           IN  Handled(0, SetVostate(q, vdb, new),
                                       <<NotifyVolOffsetState(new, vcp)>>)

vocs_set_vol_offset(q, vocs, vcp, iov) ==
    LET vdb == vcp_get_vdb(vcp) IN
    IF vdb = 0 THEN Handled(0, q, <<>>)
    ELSE IF vdb_get_vostate(q[vdb]) = <<>> THEN Handled(0, q, <<>>)
    ELSE LET vstate == vdb_get_vostate(q[vdb])[1]
             req_ == iov_pull_mem(iov, SIZEOF_BT_VOCS_SET_VOL_OFF)
         IN  IF ~req_.ok THEN Handled(0, q, <<>>)
             ELSE IF req_.data[1] # vstate.counter
             THEN Handled(BT_ATT_ERROR_INVALID_CHANGE_COUNTER, q, <<>>)
             ELSE LET stored == [vstate EXCEPT
                                   !.vol_offset = le16_to_cpu(req_.data[2],
                                                              req_.data[3])]
                  IN  IF \/ stored.vol_offset > VOCS_VOL_OFFSET_UPPER_LIMIT
                         \/ stored.vol_offset < VOCS_VOL_OFFSET_LOWER_LIMIT
                      THEN Handled(BT_ATT_ERROR_VALUE_OUT_OF_RANGE,
                                   SetVostate(q, vdb, stored), <<>>)
                      ELSE LET new == [stored EXCEPT
                                         !.counter = IncrementCounter(stored.counter)]
                           IN  Handled(0, SetVostate(q, vdb, new),
                                       <<NotifyVolOffsetState(new, vcp)>>)

(***************************************************************************)
(* Opcode tables: opcode, required operand size, handler.                  *)
(***************************************************************************)
vcp_handlers ==
    << [op |-> BT_VCS_REL_VOL_DOWN, size |-> SIZEOF_UINT8,
        func |-> "vcs_rel_vol_down"],
       [op |-> BT_VCS_REL_VOL_UP, size |-> SIZEOF_UINT8,
        func |-> "vcs_rel_vol_up"],
       [op |-> BT_VCS_UNMUTE_REL_VOL_DOWN, size |-> SIZEOF_UINT8,
        func |-> "vcs_unmute_rel_vol_down"],
       [op |-> BT_VCS_UNMUTE_REL_VOL_UP, size |-> SIZEOF_UINT8,
        func |-> "vcs_unmute_rel_vol_up"],
       [op |-> BT_VCS_SET_ABSOLUTE_VOL, size |-> SIZEOF_BT_VCS_AB_VOL,
        func |-> "vcs_set_absolute_vol"],
       [op |-> BT_VCS_UNMUTE, size |-> SIZEOF_UINT8,
        func |-> "vcs_unmute"],
       [op |-> BT_VCS_MUTE, size |-> SIZEOF_UINT8,
        func |-> "vcs_mute"] >>

\* The table asks for sizeof(uint8_t) although the handler pulls
\* sizeof(struct bt_vocs_set_vol_off).
vocp_handlers ==
    << [op |-> BT_VOCS_SET_VOL_OFFSET, size |-> SIZEOF_UINT8,
        func |-> "vocs_set_vol_offset"] >>

\* The loop over a table: index of the first entry of the opcode, 0 at the
\* terminating empty entry.
FindHandler(table, op) ==
    IF \E i \in DOMAIN table : table[i].op = op
    THEN CHOOSE i \in DOMAIN table :
            /\ table[i].op = op
            /\ \A j \in DOMAIN table : table[j].op = op => i <= j
    ELSE 0

\* handler->func(vcs, vcp, &iov)
CallHandler(func, q, svc, vcp, iov) ==
    CASE func = "vcs_rel_vol_down" -> vcs_rel_vol_down(q, svc, vcp, iov)
      [] func = "vcs_rel_vol_up" -> vcs_rel_vol_up(q, svc, vcp, iov)
      [] func = "vcs_unmute_rel_vol_down" -> vcs_unmute_rel_vol_down(q, svc, vcp, iov)
      [] func = "vcs_unmute_rel_vol_up" -> vcs_unmute_rel_vol_up(q, svc, vcp, iov)
      [] func = "vcs_set_absolute_vol" -> vcs_set_absolute_vol(q, svc, vcp, iov)
      [] func = "vcs_unmute" -> vcs_unmute(q, svc, vcp, iov)
      [] func = "vcs_mute" -> vcs_mute(q, svc, vcp, iov)
      [] func = "vocs_set_vol_offset" -> vocs_set_vol_offset(q, svc, vcp, iov)

\* Mutant of cp_write: an opcode the table lacks keeps the initial result,
\* BT_ATT_ERROR_REQUEST_NOT_SUPPORTED.
cp_write_UnknownKeepsInitial(table, q, svc, vcp, offset, value) ==
    IF offset # 0
    THEN Handled(BT_ATT_ERROR_INVALID_OFFSET, q, <<>>)
    ELSE IF Len(value) < SIZEOF_UINT8
    THEN Handled(BT_ATT_ERROR_INVALID_ATTRIBUTE_VALUE_LEN, q, <<>>)
    ELSE LET vcp_op == iov_pull_mem(value, SIZEOF_UINT8)
             h == FindHandler(table, vcp_op.data[1])
         IN  IF h = 0
             THEN Handled(BT_ATT_ERROR_REQUEST_NOT_SUPPORTED, q, <<>>)
             ELSE IF Len(vcp_op.iov) < table[h].size
             THEN Handled(BT_ATT_ERROR_OPCODE_NOT_SUPPORTED, q, <<>>)
             ELSE CallHandler(table[h].func, q, svc, vcp, vcp_op.iov)

\* Mutant of cp_write: the length is checked before the offset.
cp_write_LengthFirst(table, q, svc, vcp, offset, value) ==
    IF Len(value) < SIZEOF_UINT8
    THEN Handled(BT_ATT_ERROR_INVALID_ATTRIBUTE_VALUE_LEN, q, <<>>)
    ELSE IF offset # 0
    THEN Handled(BT_ATT_ERROR_INVALID_OFFSET, q, <<>>)
    ELSE LET vcp_op == iov_pull_mem(value, SIZEOF_UINT8)
             h == FindHandler(table, vcp_op.data[1])
         IN  IF h = 0
             THEN Handled(BT_ATT_ERROR_OPCODE_NOT_SUPPORTED, q, <<>>)
             ELSE IF Len(vcp_op.iov) < table[h].size
             THEN Handled(BT_ATT_ERROR_OPCODE_NOT_SUPPORTED, q, <<>>)
             ELSE CallHandler(table[h].func, q, svc, vcp, vcp_op.iov)

\* The body of vcs_cp_write / vocs_cp_write after the session is resolved:
\* offset check, length check, opcode lookup with the operand-size check,
\* dispatch.  Yields the result written back and the handler's effects.
cp_write(table, q, svc, vcp, offset, value) ==
    IF offset # 0
    THEN Handled(BT_ATT_ERROR_INVALID_OFFSET, q, <<>>)
    ELSE IF Len(value) < SIZEOF_UINT8
    THEN Handled(BT_ATT_ERROR_INVALID_ATTRIBUTE_VALUE_LEN, q, <<>>)
    ELSE LET vcp_op == iov_pull_mem(value, SIZEOF_UINT8)
             h == FindHandler(table, vcp_op.data[1])
         IN  IF h = 0
             THEN Handled(BT_ATT_ERROR_OPCODE_NOT_SUPPORTED, q, <<>>)
             ELSE IF Len(vcp_op.iov) < table[h].size
             THEN Handled(BT_ATT_ERROR_OPCODE_NOT_SUPPORTED, q, <<>>)
             ELSE CallHandler(table[h].func, q, svc, vcp, vcp_op.iov)

(***************************************************************************)
(* Inputs of the events.                                                   *)
(***************************************************************************)
\* The transport whose writes, reads and disconnects the runs follow.
Writers == {"att1"}

\* Opcode bytes tried on the Volume Control Point: the table's and one more.
VcsOpcodes == 0 .. 7

\* Opcode bytes tried on the Volume Offset Control Point: 0x01 and one more.
VocsOpcodes == {0, 1}

\* Counter bytes a writer sends: the stored counter c or the one before it.
CounterBytes(c) == {c, (c + 255) % 256}

\* Setting operand of Set Absolute Volume (and trailing byte of the others).
SettingBytes == {200}

\* Offset operands <<lo, hi>>: 255, 256, 257, -255, -256, -32768, 32767.
OffsetBytes ==
    { <<255, 0>>, <<0, 1>>, <<1, 1>>, <<1, 255>>, <<0, 255>>, <<0, 128>>,
      <<255, 127>> }

\* Buffers written to the Volume Control Point of a binding whose Volume
\* State counter is c: empty, opcode only, opcode and counter, and opcode,
\* counter and one more byte.
VcsValues(c) ==
    {<<>>}
    \cup { <<op>> : op \in VcsOpcodes }
    \cup { <<op, cc>> : op \in VcsOpcodes, cc \in CounterBytes(c) }
    \cup { <<op, cc, s>> : op \in VcsOpcodes, cc \in CounterBytes(c),
                           s \in SettingBytes }

\* Buffers written to the Volume Offset Control Point: from empty up to the
\* opcode, the counter and both offset bytes.
VocsValues(c) ==
    {<<>>}
    \cup { <<op>> : op \in VocsOpcodes }
    \cup { <<op, cc>> : op \in VocsOpcodes, cc \in CounterBytes(c) }
    \cup { <<op, cc, o[1]>> : op \in VocsOpcodes, cc \in CounterBytes(c),
                              o \in OffsetBytes }
    \cup { <<op, cc, o[1], o[2]>> : op \in VocsOpcodes, cc \in CounterBytes(c),
                                    o \in OffsetBytes }

\* Writes delivered to a control point: every buffer at offset 0, and at a
\* non-zero offset an empty buffer, an unknown opcode and writes that offset
\* 0 would accept.
VcsWrites(c) ==
    { [offset |-> 0, value |-> v] : v \in VcsValues(c) }
    \cup { [offset |-> 1, value |-> v] :
              v \in { <<>>, <<7>>, <<BT_VCS_REL_VOL_DOWN, c>>,
                      <<BT_VCS_SET_ABSOLUTE_VOL, c, 200>> } }

VocsWrites(c) ==
    { [offset |-> 0, value |-> v] : v \in VocsValues(c) }
    \cup { [offset |-> 1, value |-> v] :
              v \in { <<>>, <<0>>, <<BT_VOCS_SET_VOL_OFFSET, c, 255, 0>>,
                      <<BT_VOCS_SET_VOL_OFFSET, c, 1, 1>> } }

\* States a binding can be in when the run starts: a zeroed one, the one of
\* the spec's scenarios, and ones at the ends of the setting, the offset and
\* the counters.
InitStates ==
    { [vol_set |-> 0, mute |-> 0, counter |-> 0, vol_offset |-> 0, ocounter |-> 0],
      [vol_set |-> 10, mute |-> 0, counter |-> 5, vol_offset |-> 0, ocounter |-> 3],
      [vol_set |-> 0, mute |-> 1, counter |-> 255, vol_offset |-> 255, ocounter |-> 255],
      [vol_set |-> 255, mute |-> 1, counter |-> 254, vol_offset |-> -255, ocounter |-> 254] }

NoReq == [kind |-> "none", b |-> 0, att |-> NULL, offset |-> 0,
          value |-> <<>>, vcp |-> 0]

\* What an event records of the state it found.
Before ==
    [vcps |-> vcps, sessions |-> sessions, disc |-> disc, gatt |-> gatt,
     vcp_cbs |-> vcp_cbs]

(***************************************************************************)
(* Initial state: db1 registered (bt_vcp_add_db), its states somewhere in  *)
(* InitStates, no session yet.                                             *)
(***************************************************************************)
Init ==
    /\ \E s \in InitStates :
          vcp_db = << [db |-> "db1",
                       vcs |-> << [vstate |-> [vol_set |-> s.vol_set,
                                               mute |-> s.mute,
                                               counter |-> s.counter],
                                   vol_flag |-> USERSET_VOLUME_SETTING] >>,
                       vocs |-> << [vostate |-> [vol_offset |-> s.vol_offset,
                                                 counter |-> s.ocounter]] >>] >>
    /\ vcps = <<>>
    /\ sessions = <<>>
    /\ disc = [a \in Atts |-> <<>>]
    /\ vcp_cbs = <<>>
    /\ cb_id = 0
    /\ gatt = [clones |-> 0, reqs |-> <<>>]
    /\ req = NoReq
    /\ pre = vcp_db
    /\ was = Before
    /\ out = <<>>
    /\ steps = 0

(***************************************************************************)
(* Events.                                                                 *)
(***************************************************************************)
\* gatt_db_attribute_write_result(attrib, id, ret)
WriteResult(ret) == [t |-> "write_result", ret |-> ret]

\* vcs_cp_write answering the write before the handler has run.
vcs_cp_write_RespondsFirst(b, att, offset, value) ==
    /\ LET s == vcp_get_session(att, vcp_db[b].db)
           r == cp_write(vcp_handlers, s.vcp_db, b, s.vcps[s.vcp], offset, value)
       IN  /\ vcp_db' = r.vcp_db
           /\ vcps' = s.vcps
           /\ sessions' = s.sessions
           /\ disc' = s.disc
           /\ out' = <<WriteResult(r.ret)>> \o r.out
           /\ req' = [kind |-> "vcs_cp_write", b |-> b, att |-> att,
                      offset |-> offset, value |-> value, vcp |-> s.vcp]
    /\ UNCHANGED <<vcp_cbs, cb_id, gatt>>
    /\ pre' = vcp_db
    /\ was' = Before
    /\ steps' = steps + 1

\* A write of value at offset to the Volume Control Point of binding b,
\* arriving over transport att.
vcs_cp_write(b, att, offset, value) ==
    /\ LET s == vcp_get_session(att, vcp_db[b].db)
           r == cp_write(vcp_handlers, s.vcp_db, b, s.vcps[s.vcp], offset, value)
       IN  /\ vcp_db' = r.vcp_db
           /\ vcps' = s.vcps
           /\ sessions' = s.sessions
           /\ disc' = s.disc
           /\ out' = r.out \o <<WriteResult(r.ret)>>
           /\ req' = [kind |-> "vcs_cp_write", b |-> b, att |-> att,
                      offset |-> offset, value |-> value, vcp |-> s.vcp]
    /\ UNCHANGED <<vcp_cbs, cb_id, gatt>>
    /\ pre' = vcp_db
    /\ was' = Before
    /\ steps' = steps + 1

\* Mutant of vocs_cp_write: a rejected write returns without answering.
vocs_cp_write_ReturnsOnError(b, att, offset, value) ==
    /\ LET s == vcp_get_session(att, vcp_db[b].db)
           r == cp_write(vocp_handlers, s.vcp_db, b, s.vcps[s.vcp], offset, value)
       IN  /\ vcp_db' = r.vcp_db
           /\ vcps' = s.vcps
           /\ sessions' = s.sessions
           /\ disc' = s.disc
           /\ out' = IF r.ret # 0 THEN r.out
                     ELSE r.out \o <<WriteResult(r.ret)>>
           /\ req' = [kind |-> "vocs_cp_write", b |-> b, att |-> att,
                      offset |-> offset, value |-> value, vcp |-> s.vcp]
    /\ UNCHANGED <<vcp_cbs, cb_id, gatt>>
    /\ pre' = vcp_db
    /\ was' = Before
    /\ steps' = steps + 1

\* A write of value at offset to the Volume Offset Control Point of binding b.
vocs_cp_write(b, att, offset, value) ==
    /\ LET s == vcp_get_session(att, vcp_db[b].db)
           r == cp_write(vocp_handlers, s.vcp_db, b, s.vcps[s.vcp], offset, value)
       IN  /\ vcp_db' = r.vcp_db
           /\ vcps' = s.vcps
           /\ sessions' = s.sessions
           /\ disc' = s.disc
           /\ out' = r.out \o <<WriteResult(r.ret)>>
           /\ req' = [kind |-> "vocs_cp_write", b |-> b, att |-> att,
                      offset |-> offset, value |-> value, vcp |-> s.vcp]
    /\ UNCHANGED <<vcp_cbs, cb_id, gatt>>
    /\ pre' = vcp_db
    /\ was' = Before
    /\ steps' = steps + 1

\* A read of the Volume State characteristic of binding b.
vcs_state_read(b) ==
    /\ LET vstate == vcp_db[b].vcs[1].vstate
       IN  out' = << [t |-> "read_result", ret |-> 0,
                      value |-> <<vstate.vol_set, vstate.mute, vstate.counter>>] >>
    /\ req' = [NoReq EXCEPT !.kind = "vcs_state_read", !.b = b]
    /\ pre' = vcp_db
    /\ was' = Before
    /\ steps' = steps + 1
    /\ UNCHANGED <<vcp_db, vcps, sessions, disc, vcp_cbs, cb_id, gatt>>

\* A read of the Volume Offset State characteristic of binding b.
vocs_state_read(b) ==
    /\ LET vostate == vcp_db[b].vocs[1].vostate
       IN  out' = << [t |-> "read_result", ret |-> 0,
                      value |-> cpu_to_le16(vostate.vol_offset)
                                \o <<vostate.counter>>] >>
    /\ req' = [NoReq EXCEPT !.kind = "vocs_state_read", !.b = b]
    /\ pre' = vcp_db
    /\ was' = Before
    /\ steps' = steps + 1
    /\ UNCHANGED <<vcp_db, vcps, sessions, disc, vcp_cbs, cb_id, gatt>>

\* bt_vcp_detach of each session of a queue of disconnect registrations.
RECURSIVE DetachAll(_, _)
DetachAll(st, regs) ==
    IF regs = <<>> \/ Crashed(st.calls) THEN st
    ELSE DetachAll(bt_vcp_detach(st, Head(regs)), Tail(regs))

\* The transport att disconnects: vcp_disconnected runs for every session
\* registered on it, and the registrations go with the transport.
vcp_disconnected(att) ==
    /\ disc[att] # <<>>
    /\ LET st == DetachAll(SessionState, disc[att])
       IN  /\ vcps' = st.vcps
           /\ sessions' = st.sessions
           /\ gatt' = st.gatt
           /\ out' = st.calls
    /\ disc' = [disc EXCEPT ![att] = <<>>]
    /\ req' = [NoReq EXCEPT !.kind = "vcp_disconnected", !.att = att]
    /\ pre' = vcp_db
    /\ was' = Before
    /\ steps' = steps + 1
    /\ UNCHANGED <<vcp_db, vcp_cbs, cb_id>>

\* bt_vcp_add_db(db): one more binding, whether or not db has one already.
bt_vcp_add_db(db) ==
    /\ vcp_db' = vcp_db_new(vcp_db, db)
    /\ req' = [NoReq EXCEPT !.kind = "bt_vcp_add_db"]
    /\ pre' = vcp_db
    /\ was' = Before
    /\ out' = <<>>
    /\ steps' = steps + 1
    /\ UNCHANGED <<vcps, sessions, disc, vcp_cbs, cb_id, gatt>>

Next ==
    \/ \E b \in DOMAIN vcp_db, att \in Writers :
          \E w \in VcsWrites(vcp_db[b].vcs[1].vstate.counter) :
             steps < MaxSteps /\ vcs_cp_write(b, att, w.offset, w.value)
    \/ \E b \in DOMAIN vcp_db, att \in Writers :
          \E w \in VocsWrites(vcp_db[b].vocs[1].vostate.counter) :
             steps < MaxSteps /\ vocs_cp_write(b, att, w.offset, w.value)
    \/ \E b \in DOMAIN vcp_db : steps < MaxSteps /\ vcs_state_read(b)
    \/ \E b \in DOMAIN vcp_db : steps < MaxSteps /\ vocs_state_read(b)
    \/ \E att \in Writers : steps < MaxSteps /\ vcp_disconnected(att)
    \/ \E db \in GattDbs : steps < MaxSteps /\ bt_vcp_add_db(db)

Spec == Init /\ [][Next]_vars

(***************************************************************************)
(* The session life cycle: the calls of the owning application             *)
(* (bt_vcp_register, bt_vcp_new, bt_vcp_attach, bt_vcp_detach), the events *)
(* of the remote client (a read completes, a notification arrives), writes *)
(* from two transports and their disconnects.                              *)
(***************************************************************************)
\* The remote clients the application attaches with, each named by its
\* transport.
Clients == {"att1"}

\* The Volume Control Point writes of the session life cycle: Relative Volume
\* Up with the stored counter c or the one before it.
SessionWrites(c) == { <<BT_VCS_REL_VOL_UP, x>> : x \in CounterBytes(c) }

\* What a call returns to the application.
Return(ret) == [t |-> "return", ret |-> ret]

\* cb->id = ++id ? id : ++id, on an unsigned int: the next id, 0 skipped.
\* The wrap at UINT_MAX is beyond the registrations of any run here.
NextCbId(id) == IF id + 1 # 0 THEN id + 1 ELSE id + 2

\* bt_vcp_register(attached, detached, user_data); a callback is given by
\* whether it is non-null.
bt_vcp_register(attached, detached) ==
    /\ IF ~attached /\ ~detached
       THEN /\ out' = <<Return(0)>>
            /\ UNCHANGED <<vcp_cbs, cb_id>>
       ELSE /\ cb_id' = NextCbId(cb_id)
            /\ vcp_cbs' = Append(vcp_cbs, [id |-> NextCbId(cb_id),
                                           attached |-> attached,
                                           detached |-> detached])
            /\ out' = <<Return(NextCbId(cb_id))>>
    /\ req' = [NoReq EXCEPT !.kind = "bt_vcp_register"]
    /\ pre' = vcp_db
    /\ was' = Before
    /\ steps' = steps + 1
    /\ UNCHANGED <<vcp_db, vcps, sessions, disc, gatt>>

\* The application calls bt_vcp_new(ldb, rdb) with a non-null ldb.
App_bt_vcp_new(ldb, rdb) ==
    /\ LET n == bt_vcp_new(vcp_db, ldb, rdb)
       IN  /\ vcp_db' = n.vcp_db
           /\ vcps' = Append(vcps, n.vcp)
    /\ req' = [NoReq EXCEPT !.kind = "bt_vcp_new", !.vcp = Len(vcps) + 1]
    /\ out' = <<Return(Len(vcps) + 1)>>
    /\ pre' = vcp_db
    /\ was' = Before
    /\ steps' = steps + 1
    /\ UNCHANGED <<sessions, disc, vcp_cbs, cb_id, gatt>>

\* The sessions the application holds are those it made with bt_vcp_new; the
\* ones vcp_get_session made carry their transport in vcp->att.
AppSession(v) == vcps[v].att = NULL

\* The application calls bt_vcp_attach(vcp, client).  A discovery needs the
\* remote binding: the call is not made with a client on a session that has
\* neither a client nor a remote database (vcp->rdb would be dereferenced).
App_bt_vcp_attach(v, client) ==
    /\ AppSession(v)
    /\ (client # NULL /\ vcps[v].client = NULL) => vcps[v].rdb # <<>>
    /\ LET a == bt_vcp_attach(SessionState, v, client)
       IN  /\ vcps' = a.st.vcps
           /\ sessions' = a.st.sessions
           /\ gatt' = a.st.gatt
           /\ out' = a.st.calls \o <<Return(a.ret)>>
    /\ req' = [NoReq EXCEPT !.kind = "bt_vcp_attach", !.vcp = v, !.att = client]
    /\ pre' = vcp_db
    /\ was' = Before
    /\ steps' = steps + 1
    /\ UNCHANGED <<vcp_db, disc, vcp_cbs, cb_id>>

\* The application calls bt_vcp_detach(vcp).
App_bt_vcp_detach(v) ==
    /\ AppSession(v)
    /\ LET st == bt_vcp_detach(SessionState, v)
       IN  /\ vcps' = st.vcps
           /\ sessions' = st.sessions
           /\ gatt' = st.gatt
           /\ out' = st.calls
    /\ req' = [NoReq EXCEPT !.kind = "bt_vcp_detach", !.vcp = v]
    /\ pre' = vcp_db
    /\ was' = Before
    /\ steps' = steps + 1
    /\ UNCHANGED <<vcp_db, disc, vcp_cbs, cb_id>>

\* Mutant of vcp_pending_complete: the completion is passed on twice.
vcp_pending_complete_Twice(st, id) ==
    [st EXCEPT !.gatt.reqs[id].fired = @ + 2]

\* vcp_pending_complete: pending->func is called with the result.
vcp_pending_complete(st, id) ==
    [st EXCEPT !.gatt.reqs[id].fired = @ + 1]

\* vcp_notify: notify->func is called with the value.
vcp_notify(st, id) ==
    [st EXCEPT !.gatt.reqs[id].fired = @ + 1]

\* The client completes the outstanding read id: vcp_pending_complete is
\* called, then the request is destroyed (vcp_pending_destroy).
ReadCompletes(id) ==
    /\ gatt.reqs[id].kind = "read"
    /\ gatt.reqs[id].state = "outstanding"
    /\ LET s1 == vcp_pending_complete(SessionState, id)
           s2 == [s1 EXCEPT !.gatt.reqs[id].state = "completed"]
           s3 == vcp_pending_destroy(s2, id)
       IN  /\ vcps' = s3.vcps
           /\ gatt' = s3.gatt
    /\ req' = [NoReq EXCEPT !.kind = "read_complete", !.vcp = gatt.reqs[id].vcp,
                             !.b = id]
    /\ out' = <<>>
    /\ pre' = vcp_db
    /\ was' = Before
    /\ steps' = steps + 1
    /\ UNCHANGED <<vcp_db, sessions, disc, vcp_cbs, cb_id>>

\* The client delivers a notification for the registered subscription id:
\* vcp_notify is called.
NotificationArrives(id) ==
    /\ gatt.reqs[id].kind = "notify"
    /\ gatt.reqs[id].state = "outstanding"
    /\ LET s1 == vcp_notify(SessionState, id)
       IN  /\ vcps' = s1.vcps
           /\ gatt' = s1.gatt
    /\ req' = [NoReq EXCEPT !.kind = "notification", !.vcp = gatt.reqs[id].vcp,
                             !.b = id]
    /\ out' = <<>>
    /\ pre' = vcp_db
    /\ was' = Before
    /\ steps' = steps + 1
    /\ UNCHANGED <<vcp_db, sessions, disc, vcp_cbs, cb_id>>

\* Initially db1 is registered with zeroed states; no session, no observer.
InitSessions ==
    /\ vcp_db = vcp_db_new(<<>>, "db1")
    /\ vcps = <<>>
    /\ sessions = <<>>
    /\ disc = [a \in Atts |-> <<>>]
    /\ vcp_cbs = <<>>
    /\ cb_id = 0
    /\ gatt = [clones |-> 0, reqs |-> <<>>]
    /\ req = NoReq
    /\ pre = vcp_db
    /\ was = Before
    /\ out = <<>>
    /\ steps = 0

\* The process runs until a call through a null pointer ends it.
Running == steps < MaxOps /\ ~Crashed(out)

NextSessions ==
    \/ \E attached, detached \in BOOLEAN :
          Running /\ bt_vcp_register(attached, detached)
    \/ \E ldb \in GattDbs, rdb \in RemoteDbs \cup {NULL} :
          Running /\ App_bt_vcp_new(ldb, rdb)
    \/ \E v \in DOMAIN vcps, client \in Clients \cup {NULL} :
          Running /\ App_bt_vcp_attach(v, client)
    \/ \E v \in DOMAIN vcps : Running /\ App_bt_vcp_detach(v)
    \/ \E id \in DOMAIN gatt.reqs : Running /\ ReadCompletes(id)
    \/ \E id \in DOMAIN gatt.reqs : Running /\ NotificationArrives(id)
    \/ \E b \in DOMAIN vcp_db, att \in Atts :
          \E value \in SessionWrites(vcp_db[b].vcs[1].vstate.counter) :
             Running /\ vcs_cp_write(b, att, 0, value)
    \/ \E att \in Atts : Running /\ vcp_disconnected(att)

SpecSessions == InitSessions /\ [][NextSessions]_vars

(***************************************************************************)
(* Reference counting.  The application owns the reference bt_vcp_new      *)
(* took, may take more with bt_vcp_ref and gives them back with            *)
(* bt_vcp_unref; the last one given back frees the session.  A freed       *)
(* session keeps its place in vcps, with no reference left: the pointer    *)
(* value is still what the queues that were not cleaned hold.              *)
(***************************************************************************)
\* The session has not been freed.
Live(v) == vcps[v].ref_count > 0

\* vcp_free: the session is detached, its remote binding and its pending
\* queue are released, then the session itself.
vcp_free(st, v) ==
    LET s1 == bt_vcp_detach(st, v)
    IN  [s1 EXCEPT !.vcps[v].rdb = <<>>, !.vcps[v].pending = <<>>]

\* bt_vcp_unref: one reference less; the session is freed with the last.
bt_vcp_unref(st, v) ==
    LET s1 == [st EXCEPT !.vcps[v].ref_count = @ - 1]
    IN  IF s1.vcps[v].ref_count # 0 THEN s1 ELSE vcp_free(s1, v)

\* The application calls bt_vcp_ref(vcp).
App_bt_vcp_ref(v) ==
    /\ AppSession(v)
    /\ Live(v)
    /\ vcps' = [vcps EXCEPT ![v] = bt_vcp_ref(@)]
    /\ req' = [NoReq EXCEPT !.kind = "bt_vcp_ref", !.vcp = v]
    /\ out' = <<Return(v)>>
    /\ pre' = vcp_db
    /\ was' = Before
    /\ steps' = steps + 1
    /\ UNCHANGED <<vcp_db, sessions, disc, vcp_cbs, cb_id, gatt>>

\* The application calls bt_vcp_unref(vcp).
App_bt_vcp_unref(v) ==
    /\ AppSession(v)
    /\ Live(v)
    /\ LET st == bt_vcp_unref(SessionState, v)
       IN  /\ vcps' = st.vcps
           /\ sessions' = st.sessions
           /\ gatt' = st.gatt
           /\ out' = st.calls
    /\ req' = [NoReq EXCEPT !.kind = "bt_vcp_unref", !.vcp = v]
    /\ pre' = vcp_db
    /\ was' = Before
    /\ steps' = steps + 1
    /\ UNCHANGED <<vcp_db, disc, vcp_cbs, cb_id>>

\* The application works on the sessions it still holds a reference to.
NextRefs ==
    \/ \E ldb \in GattDbs, rdb \in RemoteDbs \cup {NULL} :
          Running /\ App_bt_vcp_new(ldb, rdb)
    \/ \E v \in DOMAIN vcps, client \in Clients \cup {NULL} :
          Running /\ Live(v) /\ App_bt_vcp_attach(v, client)
    \/ \E v \in DOMAIN vcps : Running /\ Live(v) /\ App_bt_vcp_detach(v)
    \/ \E v \in DOMAIN vcps : Running /\ App_bt_vcp_ref(v)
    \/ \E v \in DOMAIN vcps : Running /\ App_bt_vcp_unref(v)

SpecRefs == InitSessions /\ [][NextRefs]_vars

(***************************************************************************)
(* Vocabulary of the properties.  They speak of the event delivered last   *)
(* (req), of the registry before it (pre) and after it (vcp_db), and of    *)
(* what it handed to the attribute database (out).                         *)
(***************************************************************************)
IsVcsWrite == req.kind = "vcs_cp_write"
IsVocsWrite == req.kind = "vocs_cp_write"
IsCpWrite == IsVcsWrite \/ IsVocsWrite

\* The result the write handed to gatt_db_attribute_write_result.
Response == out[Len(out)].ret

\* The notifications the event handed to gatt_db_attribute_notify.
Notifications == SelectSeq(out, LAMBDA e : e.t = "notify")

\* The binding whose state the write's session serves (vcp_get_vdb): the
\* stored counter of a write is the counter its handler compares with.
Ldb == vcps[req.vcp].ldb

PreVstate == pre[Ldb].vcs[1].vstate
PostVstate == vcp_db[Ldb].vcs[1].vstate
PreVostate == pre[Ldb].vocs[1].vostate
PostVostate == vcp_db[Ldb].vocs[1].vostate

\* Operand bytes an opcode needs after the opcode byte, by the wire format:
\* the counter, plus the setting (Set Absolute Volume) or the offset.
VcsOperandSize(op) == IF op = 4 THEN 2 ELSE 1
VocsOperandSize == 3

KnownVcsOpcode == Len(req.value) >= 1 /\ req.value[1] \in 0 .. 6
KnownVocsOpcode == Len(req.value) >= 1 /\ req.value[1] = 1

\* A write at offset 0 of a known opcode with its whole operand.
CompleteVcsWrite ==
    /\ IsVcsWrite /\ req.offset = 0 /\ KnownVcsOpcode
    /\ Len(req.value) - 1 >= VcsOperandSize(req.value[1])

CompleteVocsWrite ==
    /\ IsVocsWrite /\ req.offset = 0 /\ KnownVocsOpcode
    /\ Len(req.value) - 1 >= VocsOperandSize

\* The same, the counter byte being the stored counter, or not.
MatchingVcsWrite == CompleteVcsWrite /\ req.value[2] = PreVstate.counter
StaleVcsWrite == CompleteVcsWrite /\ req.value[2] # PreVstate.counter
MatchingVocsWrite == CompleteVocsWrite /\ req.value[2] = PreVostate.counter
StaleVocsWrite == CompleteVocsWrite /\ req.value[2] # PreVostate.counter

\* The 16-bit signed offset a Set Volume Offset write asks for.
RequestedOffset ==
    IF req.value[4] >= 128
    THEN req.value[3] + 256 * req.value[4] - 65536
    ELSE req.value[3] + 256 * req.value[4]

OffsetRange == -255 .. 255

(***************************************************************************)
(* C1.  A control-point write (any VCS opcode 0x00-0x06, VOCS opcode 0x01, *)
(* at offset 0 with its operand) whose counter byte differs from the       *)
(* stored change counter returns InvalidChangeCounter (0x80), leaves       *)
(* setting, mute, offset and both change counters as they were, and emits  *)
(* no broadcast.                                                           *)
(***************************************************************************)
C1_StaleCounterRejected ==
    (StaleVcsWrite \/ StaleVocsWrite) =>
        /\ Response = 128
        /\ vcp_db = pre
        /\ Notifications = <<>>

\* Scenario B: state (10, unmuted, 5), write [0x00, 4].
C1_Witness ==
    /\ StaleVcsWrite
    /\ req.value = <<0, 4>>
    /\ PreVstate = [vol_set |-> 10, mute |-> 0, counter |-> 5]
    /\ Response = 128

(***************************************************************************)
(* C2.  For every valid opcode (VCS 0x00-0x06; VOCS 0x01 with an offset in *)
(* range) a write at offset 0 carrying the stored change counter makes the *)
(* stored counter exactly one more modulo 256 (255 becomes 0), also when   *)
(* the setting is already at 0 or 255.                                     *)
(***************************************************************************)
C2_CounterIncrements ==
    /\ MatchingVcsWrite =>
          PostVstate.counter = (PreVstate.counter + 1) % 256
    /\ (MatchingVocsWrite /\ RequestedOffset \in OffsetRange) =>
          PostVostate.counter = (PreVostate.counter + 1) % 256

\* Relative Volume Down at setting 0 with counter 255: the counter wraps.
C2_Witness ==
    /\ MatchingVcsWrite
    /\ req.value[1] = 0
    /\ PreVstate.vol_set = 0
    /\ PreVstate.counter = 255
    /\ PostVstate.counter = 0

(***************************************************************************)
(* C3.  The stored setting is always within [0,255]; an accepted Down      *)
(* (0x00, 0x02) at setting 0 leaves it 0 and an accepted Up (0x01, 0x03)   *)
(* at setting 255 leaves it 255.                                           *)
(***************************************************************************)
C3_SettingClamped ==
    /\ \A b \in DOMAIN vcp_db : vcp_db[b].vcs[1].vstate.vol_set \in 0 .. 255
    /\ (MatchingVcsWrite /\ req.value[1] \in {0, 2} /\ PreVstate.vol_set = 0) =>
          PostVstate.vol_set = 0
    /\ (MatchingVcsWrite /\ req.value[1] \in {1, 3} /\ PreVstate.vol_set = 255) =>
          PostVstate.vol_set = 255

\* Scenario D: Relative Volume Up at setting 255.
C3_Witness ==
    /\ MatchingVcsWrite
    /\ req.value[1] = 1
    /\ PreVstate.vol_set = 255
    /\ PostVstate.vol_set = 255
    /\ Response = 0

(***************************************************************************)
(* C4.  A VCS opcode written with the matching counter has the effect of   *)
(* the opcode table on (setting, mute): 0x00 setting-1 not below 0; 0x01   *)
(* setting+1 not above 255; 0x02 unmute and Down; 0x03 unmute and Up; 0x04 *)
(* setting = operand; 0x05 unmute; 0x06 mute; what the opcode does not     *)
(* name stays, and the response is success.                                *)
(***************************************************************************)
TableDown(setting) == IF setting = 0 THEN 0 ELSE setting - 1
TableUp(setting) == IF setting = 255 THEN 255 ELSE setting + 1

TableSetting(op, v) ==
    CASE op \in {0, 2} -> TableDown(v.vol_set)
      [] op \in {1, 3} -> TableUp(v.vol_set)
      [] op = 4 -> req.value[3]
      [] OTHER -> v.vol_set

TableMute(op, v) ==
    CASE op \in {2, 3, 5} -> 0
      [] op = 6 -> 1
      [] OTHER -> v.mute

C4_OpcodeTable ==
    MatchingVcsWrite =>
        /\ PostVstate.vol_set = TableSetting(req.value[1], PreVstate)
        /\ PostVstate.mute = TableMute(req.value[1], PreVstate)
        /\ vcp_db[Ldb].vocs = pre[Ldb].vocs
        /\ vcp_db[Ldb].vcs[1].vol_flag = pre[Ldb].vcs[1].vol_flag
        /\ Response = 0

\* Scenario A: state (10, unmuted, 5), write [0x00, 5] gives (9, unmuted, 6).
C4_Witness ==
    /\ MatchingVcsWrite
    /\ req.value = <<0, 5>>
    /\ PreVstate = [vol_set |-> 10, mute |-> 0, counter |-> 5]
    /\ PostVstate = [vol_set |-> 9, mute |-> 0, counter |-> 6]
    /\ Response = 0

(***************************************************************************)
(* C5.  A Set Volume Offset write with the matching counter returns        *)
(* ValueOutOfRange (0x82) for every requested offset outside [-255,255]    *)
(* and is accepted (success, counter incremented) for every one inside.    *)
(***************************************************************************)
C5_OffsetRangeChecked ==
    MatchingVocsWrite =>
        IF RequestedOffset \in OffsetRange
        THEN /\ Response = 0
             /\ PostVostate.counter = (PreVostate.counter + 1) % 256
        ELSE Response = 130

\* Scenario C: offset state (0, 3), write [0x01, 3, 0x01, 0x01] (257).
C5_Witness ==
    /\ MatchingVocsWrite
    /\ req.value = <<1, 3, 1, 1>>
    /\ PreVostate = [vol_offset |-> 0, counter |-> 3]
    /\ Response = 130

(***************************************************************************)
(* C6.  After any sequence of Volume Offset control-point writes, accepted *)
(* or rejected, the stored offset is within [-255,255].                    *)
(***************************************************************************)
C6_OffsetInRange ==
    \A b \in DOMAIN vcp_db : vcp_db[b].vocs[1].vostate.vol_offset \in OffsetRange

(***************************************************************************)
(* C7.  A write at offset 0 of a known opcode whose bytes after the opcode *)
(* are fewer than its operand (VCS: the counter, two bytes for Set         *)
(* Absolute Volume; VOCS: the counter and two offset bytes) returns        *)
(* OpcodeNotSupported (0x81) and changes no state.                         *)
(***************************************************************************)
ShortVcsWrite ==
    /\ IsVcsWrite /\ req.offset = 0 /\ KnownVcsOpcode
    /\ Len(req.value) - 1 < VcsOperandSize(req.value[1])

ShortVocsWrite ==
    /\ IsVocsWrite /\ req.offset = 0 /\ KnownVocsOpcode
    /\ Len(req.value) - 1 < VocsOperandSize

C7_ShortOperandRejected ==
    (ShortVcsWrite \/ ShortVocsWrite) =>
        /\ Response = 129
        /\ vcp_db = pre

(***************************************************************************)
(* C8.  A write at offset 0 whose first byte is not an opcode of the       *)
(* service (VCS: not 0x00-0x06; VOCS: not 0x01) returns OpcodeNotSupported *)
(* (0x81) and leaves Volume State and Volume Offset State as they were,    *)
(* whatever bytes follow.                                                  *)
(***************************************************************************)
UnknownOpcodeWrite ==
    /\ IsCpWrite /\ req.offset = 0 /\ Len(req.value) >= 1
    /\ \/ IsVcsWrite /\ ~KnownVcsOpcode
       \/ IsVocsWrite /\ ~KnownVocsOpcode

C8_UnknownOpcodeRejected ==
    UnknownOpcodeWrite =>
        /\ Response = 129
        /\ vcp_db = pre
        /\ Notifications = <<>>

\* Opcode 0x00 on the Volume Offset Control Point, followed by a counter
\* that matches and an offset in range.
C8_Witness ==
    /\ UnknownOpcodeWrite
    /\ IsVocsWrite
    /\ req.value = <<0, PreVostate.counter, 255, 0>>
    /\ Response = 129

(***************************************************************************)
(* C9.  Validation is ordered: a write at a non-zero offset returns        *)
(* InvalidOffset whatever its bytes (an empty buffer and an unknown opcode *)
(* included), only a write at offset 0 with an empty buffer returns        *)
(* InvalidAttributeValueLen, and in both cases no handler runs: no state   *)
(* changes and nothing is broadcast.                                       *)
(***************************************************************************)
C9_ValidationOrder ==
    IsCpWrite =>
        /\ req.offset # 0 =>
              Response = 7 /\ vcp_db = pre /\ Notifications = <<>>
        /\ (req.offset = 0 /\ req.value = <<>>) =>
              Response = 13 /\ vcp_db = pre /\ Notifications = <<>>
        /\ Response = 13 => (req.offset = 0 /\ req.value = <<>>)

\* An empty buffer at a non-zero offset: the offset decides.
C9_Witness ==
    /\ IsCpWrite
    /\ req.offset # 0
    /\ req.value = <<>>
    /\ Response = 7

(***************************************************************************)
(* C10.  An accepted VCS write of opcode 0x00-0x05 emits exactly one       *)
(* broadcast, of the new Volume State (setting, mute, incremented          *)
(* counter); an accepted Mute (0x06) increments the counter and emits no   *)
(* broadcast; a write rejected for its counter emits none.                 *)
(***************************************************************************)
C10_BroadcastPerWrite ==
    /\ (MatchingVcsWrite /\ req.value[1] \in 0 .. 5) =>
          /\ Len(Notifications) = 1
          /\ Notifications[1].chrc = "vs"
          /\ Notifications[1].value =
                <<PostVstate.vol_set, PostVstate.mute,
                  (PreVstate.counter + 1) % 256>>
    /\ (MatchingVcsWrite /\ req.value[1] = 6) =>
          /\ PostVstate.counter = (PreVstate.counter + 1) % 256
          /\ Notifications = <<>>
    /\ StaleVcsWrite => Notifications = <<>>

\* An accepted Mute: muted, counter one more, nothing but the write result.
C10_Witness ==
    /\ MatchingVcsWrite
    /\ req.value[1] = 6
    /\ PostVstate.mute = 1
    /\ PostVstate.counter = (PreVstate.counter + 1) % 256
    /\ out = <<WriteResult(0)>>

(***************************************************************************)
(* C11.  For every accepted broadcasting write (VCS opcodes 0x00-0x05, and *)
(* an in-range Set Volume Offset) the counter is updated and the broadcast *)
(* is handed over before the write is answered: the write result is the    *)
(* last thing the write emits, every broadcast precedes it and already     *)
(* carries the incremented counter.                                        *)
(***************************************************************************)
BroadcastingVcsWrite == MatchingVcsWrite /\ req.value[1] \in 0 .. 5
BroadcastingVocsWrite == MatchingVocsWrite /\ RequestedOffset \in OffsetRange

C11_BroadcastBeforeResponse ==
    /\ IsCpWrite =>
          /\ out # <<>>
          /\ out[Len(out)].t = "write_result"
          /\ \A i \in 1 .. Len(out) - 1 : out[i].t = "notify"
    /\ BroadcastingVcsWrite =>
          /\ Len(out) = 2
          /\ out[1].t = "notify"
          /\ out[1].value[3] = PostVstate.counter
          /\ PostVstate.counter = (PreVstate.counter + 1) % 256
          /\ out[2] = WriteResult(0)
    /\ BroadcastingVocsWrite =>
          /\ Len(out) = 2
          /\ out[1].t = "notify"
          /\ out[1].value[3] = PostVostate.counter
          /\ PostVostate.counter = (PreVostate.counter + 1) % 256
          /\ out[2] = WriteResult(0)

\* An accepted Relative Volume Up: the broadcast of the new state, then the
\* success result.
C11_Witness ==
    /\ BroadcastingVcsWrite
    /\ req.value[1] = 1
    /\ out = << [t |-> "notify", chrc |-> "vs",
                 value |-> <<PostVstate.vol_set, PostVstate.mute,
                             PostVstate.counter>>,
                 att |-> req.att],
                WriteResult(0) >>
    /\ PostVstate.counter # PreVstate.counter

(***************************************************************************)
(* C19.  After any sequence of bt_vcp_add_db, bt_vcp_new and writes that   *)
(* name the same database, the registry holds at most one binding for it.  *)
(***************************************************************************)
C19_OneBindingPerDatabase ==
    \A i, j \in DOMAIN vcp_db : vcp_db[i].db = vcp_db[j].db => i = j

(***************************************************************************)
(* C20.  A Set Volume Offset whose counter matches and whose offset lies   *)
(* outside [-255, 255] leaves the requested offset stored, the counter as  *)
(* it was and nothing broadcast; a read of the Volume Offset State returns *)
(* the stored offset, little-endian, and the stored counter, so after such *)
(* a write it returns the out-of-range offset with the old counter.        *)
(***************************************************************************)
OutOfRangeVocsWrite == MatchingVocsWrite /\ RequestedOffset \notin OffsetRange

IsVocsRead == req.kind = "vocs_state_read"

\* The offset a Volume Offset State value carries in its first two bytes.
ReadOffset(value) ==
    LET u == value[1] + 256 * value[2]
    IN  IF u >= 32768 THEN u - 65536 ELSE u

C20_OutOfRangeOffsetKept ==
    /\ OutOfRangeVocsWrite =>
          /\ PostVostate.vol_offset = RequestedOffset
          /\ PostVostate.counter = PreVostate.counter
          /\ Notifications = <<>>
          /\ Response = BT_ATT_ERROR_VALUE_OUT_OF_RANGE
    /\ IsVocsRead =>
          /\ Len(out) = 1
          /\ Len(out[1].value) = 3
          /\ ReadOffset(out[1].value) = vcp_db[req.b].vocs[1].vostate.vol_offset
          /\ out[1].value[3] = vcp_db[req.b].vocs[1].vostate.counter

\* A read that follows a rejected Set Volume Offset of 256 on a state that
\* began as (0, counter 0): it returns 256 with counter 0.
C20_Witness ==
    /\ IsVocsRead
    /\ steps = 2
    /\ out[1].value = <<0, 1, 0>>
    /\ ReadOffset(out[1].value) = 256
    /\ ReadOffset(out[1].value) \notin OffsetRange

Entries(q) == { q[i] : i \in DOMAIN q }

\* The session v was in the attached queue and the event detached it: a
\* bt_vcp_detach of v, or the disconnect of a transport v was registered on.
Detached(v) ==
    /\ v \in Entries(was.sessions)
    /\ \/ req.kind = "bt_vcp_detach" /\ req.vcp = v
       \/ req.kind = "vcp_disconnected" /\ v \in Entries(was.disc[req.att])

\* The event attached the session v: a bt_vcp_attach of v that returned
\* true, or a write that found no session of its transport and made v.
Attached(v) ==
    \/ /\ req.kind = "bt_vcp_attach" /\ req.vcp = v
       /\ out[Len(out)] = Return(TRUE)
    \/ /\ IsVcsWrite /\ req.vcp = v
       /\ v \notin DOMAIN was.vcps

\* How often the event invoked the callback t of observer id for session v.
Invocations(t, id, v) ==
    Cardinality({ i \in DOMAIN out :
                    out[i] = [t |-> t, cb |-> id, vcp |-> v] })

(***************************************************************************)
(* C13.  The attached queue holds no session twice and no two sessions of  *)
(* the same transport.                                                     *)
(***************************************************************************)
C13_OneSessionPerTransport ==
    \A i, j \in DOMAIN sessions :
       ( \/ sessions[i] = sessions[j]
         \/ /\ bt_vcp_get_att(vcps[sessions[i]]) # NULL
            /\ bt_vcp_get_att(vcps[sessions[i]]) =
                  bt_vcp_get_att(vcps[sessions[j]]) )
       => i = j

(***************************************************************************)
(* C14.  A detach of an attached session, by bt_vcp_detach or by the       *)
(* disconnect of its transport, leaves the session out of the attached     *)
(* queue and without a client, and has invoked the detached callback of    *)
(* every observer registered with one exactly once for it.                 *)
(***************************************************************************)
C14_DetachRemovesAndNotifies ==
    \A v \in DOMAIN vcps :
       Detached(v) =>
          /\ v \notin Entries(sessions)
          /\ vcps[v].client = NULL
          /\ \A k \in DOMAIN was.vcp_cbs :
                was.vcp_cbs[k].detached =>
                   Invocations("detached", was.vcp_cbs[k].id, v) = 1

(***************************************************************************)
(* C15.  A session that holds no client has an empty pending queue and an  *)
(* empty subscription queue, so after a detach both are empty; and a read  *)
(* completion or a notification is delivered only for a request of the     *)
(* clone its session holds at that moment, never for one issued before a   *)
(* detach of the session.                                                  *)
(***************************************************************************)
IsClientCallback == req.kind \in {"read_complete", "notification"}

C15_NoCallbackAfterDetach ==
    /\ \A v \in DOMAIN vcps :
          (vcps[v].clone = 0 \/ Detached(v)) =>
             /\ queue_entries(vcps[v].pending) = <<>>
             /\ queue_entries(vcps[v].notify) = <<>>
    /\ IsClientCallback =>
          /\ gatt.reqs[req.b].clone # 0
          /\ was.vcps[req.vcp].clone = gatt.reqs[req.b].clone
          /\ req.vcp \in Entries(was.sessions)

\* A bt_vcp_detach of a session with reads pending and subscriptions
\* registered: all of them are cancelled and the pending queue is empty.
C15_Witness ==
    /\ req.kind = "bt_vcp_detach"
    /\ Detached(req.vcp)
    /\ queue_entries(was.vcps[req.vcp].pending) # <<>>
    /\ queue_entries(vcps[req.vcp].pending) = <<>>
    /\ \E id \in DOMAIN gatt.reqs :
          /\ gatt.reqs[id].vcp = req.vcp /\ gatt.reqs[id].kind = "read"
          /\ was.gatt.reqs[id].state = "outstanding"
          /\ gatt.reqs[id].state = "cancelled"
    /\ \E id \in DOMAIN gatt.reqs :
          /\ gatt.reqs[id].vcp = req.vcp /\ gatt.reqs[id].kind = "notify"
          /\ was.gatt.reqs[id].state = "outstanding"
          /\ gatt.reqs[id].state = "cancelled"

(***************************************************************************)
(* C16.  When an event attaches a session, the attached callback of every  *)
(* observer registered with one is invoked for that session.               *)
(***************************************************************************)
C16_AttachNotifiesObservers ==
    \A v \in DOMAIN vcps :
       Attached(v) =>
          \A k \in DOMAIN was.vcp_cbs :
             was.vcp_cbs[k].attached =>
                Invocations("attached", was.vcp_cbs[k].id, v) >= 1

(***************************************************************************)
(* C17.  A read handed to the client is in the pending queue of its        *)
(* session exactly while it is outstanding; once completed its callback    *)
(* has been invoked exactly once; cancelled by a detach of the session it  *)
(* is out of the queue and its callback has not been and is not invoked.   *)
(***************************************************************************)
C17_PendingLedger ==
    \A id \in DOMAIN gatt.reqs :
       gatt.reqs[id].kind = "read" =>
          LET r == gatt.reqs[id]
              queued == id \in Entries(queue_entries(vcps[r.vcp].pending))
          IN  /\ r.state = "outstanding" => (queued /\ r.fired = 0)
              /\ r.state = "completed" => (~queued /\ r.fired = 1)
              /\ r.state = "cancelled" => (~queued /\ r.fired = 0)

\* A read has completed: its callback ran once and it left the queue, where
\* the other reads of the discovery still are; after that event a detach
\* cancelled one of those.
C17_Witness ==
    /\ req.kind = "bt_vcp_detach"
    /\ \E id \in DOMAIN gatt.reqs :
          /\ gatt.reqs[id].kind = "read" /\ gatt.reqs[id].vcp = req.vcp
          /\ gatt.reqs[id].state = "completed" /\ gatt.reqs[id].fired = 1
    /\ \E id \in DOMAIN gatt.reqs :
          /\ gatt.reqs[id].kind = "read" /\ gatt.reqs[id].vcp = req.vcp
          /\ id \in Entries(queue_entries(was.vcps[req.vcp].pending))
          /\ gatt.reqs[id].state = "cancelled" /\ gatt.reqs[id].fired = 0
    /\ queue_entries(vcps[req.vcp].pending) = <<>>

(***************************************************************************)
(* C18.  bt_vcp_attach with a client on a session that has a client        *)
(* returns false; no read is sent, no subscription registered and no       *)
(* handle bound, and the client the session has stays.                     *)
(***************************************************************************)
AttachWithSecondClient ==
    /\ req.kind = "bt_vcp_attach"
    /\ req.att # NULL
    /\ was.vcps[req.vcp].client # NULL

C18_SecondClientRefused ==
    AttachWithSecondClient =>
       /\ out = <<Return(FALSE)>>
       /\ gatt = was.gatt
       /\ vcps = was.vcps

\* The refused attach of a session whose first attach discovered the remote
\* database.
C18_Witness ==
    /\ AttachWithSecondClient
    /\ out = <<Return(FALSE)>>
    /\ vcps[req.vcp].vstate_id # 0
    /\ Len(gatt.reqs) = 10
    /\ gatt.clones = 1

(***************************************************************************)
(* C21.  A control-point write on a transport that has no attached session *)
(* makes exactly one session, bound to the written database, registers it  *)
(* once for the disconnect of the transport and puts it in the attached    *)
(* queue; a write on a transport that has an attached session uses the     *)
(* first such session and makes no session and no registration.  This      *)
(* holds whether the write is accepted or rejected.                        *)
(***************************************************************************)
ActiveSessionsOf(att) ==
    { i \in DOMAIN was.sessions :
         bt_vcp_get_att(was.vcps[was.sessions[i]]) = att }

C21_SessionPerTransport ==
    IsCpWrite =>
       IF ActiveSessionsOf(req.att) = {}
       THEN /\ Len(vcps) = Len(was.vcps) + 1
            /\ SubSeq(vcps, 1, Len(was.vcps)) = was.vcps
            /\ req.vcp = Len(vcps)
            /\ vcps[req.vcp].att = req.att
            /\ vcps[req.vcp].client = NULL
            /\ vcp_db[vcps[req.vcp].ldb].db = vcp_db[req.b].db
            /\ sessions = Append(was.sessions, req.vcp)
            /\ disc = [was.disc EXCEPT ![req.att] = Append(@, req.vcp)]
       ELSE /\ vcps = was.vcps
            /\ sessions = was.sessions
            /\ disc = was.disc
            /\ \E i \in ActiveSessionsOf(req.att) :
                  /\ req.vcp = was.sessions[i]
                  /\ \A j \in ActiveSessionsOf(req.att) : i <= j

\* The second write of a transport, rejected for its counter: the session
\* and the registration the first write made are the only ones.
C21_Witness ==
    /\ IsCpWrite
    /\ steps = 2
    /\ Response = BT_ATT_ERROR_INVALID_CHANGE_COUNTER
    /\ ActiveSessionsOf(req.att) = {1}
    /\ req.vcp = 1
    /\ Len(vcps) = 1
    /\ sessions = <<1>>
    /\ disc[req.att] = <<1>>

(***************************************************************************)
(* Discovery.                                                              *)
(***************************************************************************)
\* The handle of the first characteristic of the service with the UUID.
FirstInstance(chars, uuid) ==
    LET i == CHOOSE i \in DOMAIN chars :
                /\ chars[i].uuid = uuid
                /\ \A j \in DOMAIN chars : chars[j].uuid = uuid => i <= j
    IN  chars[i].handle

\* The reads / subscriptions session v ever issued on the handle.
Issued(v, kind, handle) ==
    { id \in DOMAIN gatt.reqs :
         /\ gatt.reqs[id].vcp = v
         /\ gatt.reqs[id].kind = kind
         /\ gatt.reqs[id].handle = handle }

Handles(chars) == { chars[i].handle : i \in DOMAIN chars }

\* The characteristics of the service are bound to their first instances,
\* with one read and one subscription on each handle of `readable' and none
\* on any other handle of the service.
DiscoveredOnce(v, chars, bound, readable) ==
    /\ \A uuid \in DOMAIN bound : bound[uuid] = FirstInstance(chars, uuid)
    /\ \A h \in Handles(chars) :
          LET n == IF \E uuid \in readable : bound[uuid] = h THEN 1 ELSE 0
          IN  /\ Cardinality(Issued(v, "read", h)) = n
              /\ Cardinality(Issued(v, "notify", h)) = n

\* C22: discovery binds the first instance of each characteristic UUID and
\* a later duplicate changes nothing; it issues exactly one read and one
\* subscription for Volume State, Volume Flag, Volume Offset State, Audio
\* Location and Audio Output Description, and none for the two control
\* points.
C22_FirstInstanceOnly ==
    \A v \in DOMAIN vcps :
       vcps[v].rdb # <<>> =>
          LET rdb == vcps[v].rdb[1]
              chars == RemoteChars(rdb.db)
          IN  /\ IF rdb.vcs = <<>>
                 THEN \A h \in Handles(chars.vcs) :
                         Issued(v, "read", h) \cup Issued(v, "notify", h) = {}
                 ELSE DiscoveredOnce(v, chars.vcs,
                         [uuid \in {"VOL_STATE", "VOL_CP", "VOL_FLAG"} |->
                             IF uuid = "VOL_STATE" THEN rdb.vcs[1].vs
                             ELSE IF uuid = "VOL_CP" THEN rdb.vcs[1].vol_cp
                             ELSE rdb.vcs[1].vf],
                         {"VOL_STATE", "VOL_FLAG"})
              /\ IF rdb.vocs = <<>>
                 THEN \A h \in Handles(chars.vocs) :
                         Issued(v, "read", h) \cup Issued(v, "notify", h) = {}
                 ELSE DiscoveredOnce(v, chars.vocs,
                         [uuid \in {"VOCS_STATE", "VOCS_AUDIO_LOC", "VOCS_CP",
                                    "VOCS_AUDIO_OP_DESC"} |->
                             IF uuid = "VOCS_STATE" THEN rdb.vocs[1].vos
                             ELSE IF uuid = "VOCS_AUDIO_LOC" THEN rdb.vocs[1].voal
                             ELSE IF uuid = "VOCS_CP" THEN rdb.vocs[1].vo_cp
                             ELSE rdb.vocs[1].voaodec],
                         {"VOCS_STATE", "VOCS_AUDIO_LOC", "VOCS_AUDIO_OP_DESC"})

\* A discovery has run over a remote VCS with two Volume States: the first
\* is bound, ten requests are out and none names the second.
C22_Witness ==
    /\ req.kind = "bt_vcp_attach"
    /\ req.att # NULL
    /\ Return(TRUE) \in Entries(out)
    /\ vcps[req.vcp].rdb # <<>>
    /\ vcps[req.vcp].rdb[1].vcs # <<>>
    /\ vcps[req.vcp].rdb[1].vcs[1].vs = 3
    /\ Len(gatt.reqs) = 10
    /\ Issued(req.vcp, "read", 11) = {}

\* C23: a subscription registered with a non-zero id has an entry in its
\* session's set of subscriptions until it is cancelled or the session is
\* detached.
C23_SubscriptionTracked ==
    \A id \in DOMAIN gatt.reqs :
       (gatt.reqs[id].kind = "notify" /\ gatt.reqs[id].state = "outstanding")
          => id \in Entries(queue_entries(vcps[gatt.reqs[id].vcp].notify))

\* The event was a bt_vcp_attach with a remote client that returned true.
AttachedWithClient ==
    /\ req.kind = "bt_vcp_attach"
    /\ req.att # NULL
    /\ Return(TRUE) \in Entries(out)

\* The requests issued by the event.
NewRequests == DOMAIN gatt.reqs \ DOMAIN was.gatt.reqs

\* The event issued a request of the kind for the first characteristic of
\* the service with the UUID.
IssuedNow(kind, chars, uuid) ==
    \E id \in NewRequests :
       /\ gatt.reqs[id].vcp = req.vcp
       /\ gatt.reqs[id].kind = kind
       /\ gatt.reqs[id].handle = FirstInstance(chars, uuid)
       /\ gatt.reqs[id].state = "outstanding"

\* C24: every attach with a remote client that returns true, a re-attach
\* after a detach included, issues the initial read and installs the
\* subscription for each readable and notifiable characteristic of the
\* remote database.
C24_EveryAttachDiscovers ==
    AttachedWithClient =>
       LET chars == RemoteChars(vcps[req.vcp].rdb[1].db)
       IN  \A kind \in {"read", "notify"} :
              /\ \A uuid \in {"VOL_STATE", "VOL_FLAG"} :
                    IssuedNow(kind, chars.vcs, uuid)
              /\ \A uuid \in {"VOCS_STATE", "VOCS_AUDIO_LOC",
                              "VOCS_AUDIO_OP_DESC"} :
                    IssuedNow(kind, chars.vocs, uuid)

\* The results the event handed to gatt_db_attribute_write_result.
WriteResponses == SelectSeq(out, LAMBDA e : e.t = "write_result")

\* C25: a write to the Volume Control Point or the Volume Offset Control
\* Point is answered with exactly one write result, whichever way it ends.
C25_OneResponsePerWrite ==
    IsCpWrite => Len(WriteResponses) = 1

\* A Volume Offset Control Point write at a non-zero offset, answered once.
C25_Witness ==
    /\ IsVocsWrite
    /\ req.offset # 0
    /\ WriteResponses = <<WriteResult(BT_ATT_ERROR_INVALID_OFFSET)>>

\* The bindings of databases other than the one the write was delivered to.
OtherDatabases == { b \in DOMAIN pre : pre[b].db # pre[req.b].db }

\* C26: a control-point write delivered to database D compares its counter
\* byte with D's stored counter and changes the state of D only, also when
\* the writing transport has an active session bound to another database.
C26_WriteStaysInItsDatabase ==
    IsCpWrite =>
       /\ \A b \in OtherDatabases : vcp_db[b] = pre[b]
       /\ CompleteVcsWrite =>
             (Response = BT_ATT_ERROR_INVALID_CHANGE_COUNTER
                <=> req.value[2] # pre[req.b].vcs[1].vstate.counter)
       /\ CompleteVocsWrite =>
             (Response = BT_ATT_ERROR_INVALID_CHANGE_COUNTER
                <=> req.value[2] # pre[req.b].vocs[1].vostate.counter)

\* C27: a bt_vcp_attach that returns false leaves the attached queue and the
\* session's client as they were before the call.
C27_FailedAttachChangesNothing ==
    (req.kind = "bt_vcp_attach" /\ Return(FALSE) \in Entries(out)) =>
       /\ sessions = was.sessions
       /\ vcps[req.vcp].client = was.vcps[req.vcp].client
       /\ vcps[req.vcp].clone = was.vcps[req.vcp].clone

\* C28: a session whose last reference was given back, and which was freed,
\* is not in the attached queue.
C28_FreedSessionNotAttached ==
    \A i \in DOMAIN sessions : Live(sessions[i])

\* bt_vcp_register answered 0 and stored nothing, or stored one observer
\* with at least one callback and answered its non-zero id.
RegisterAccepted ==
    \/ /\ out = <<Return(0)>>
       /\ vcp_cbs = was.vcp_cbs
    \/ /\ Len(vcp_cbs) = Len(was.vcp_cbs) + 1
       /\ SubSeq(vcp_cbs, 1, Len(was.vcp_cbs)) = was.vcp_cbs
       /\ vcp_cbs[Len(vcp_cbs)].attached \/ vcp_cbs[Len(vcp_cbs)].detached
       /\ vcp_cbs[Len(vcp_cbs)].id # 0
       /\ out = <<Return(vcp_cbs[Len(vcp_cbs)].id)>>

\* C29: bt_vcp_register refuses only an observer with neither callback,
\* answering 0; and a detach never calls an absent detached callback: an
\* observer registered with an attached callback only is skipped, the
\* others are called.
C29_AbsentCallbackSkipped ==
    /\ req.kind = "bt_vcp_register" => RegisterAccepted
    /\ ~Crashed(out)
    /\ \A v \in DOMAIN vcps :
          Detached(v) =>
             \A k \in DOMAIN was.vcp_cbs :
                Invocations("detached", was.vcp_cbs[k].id, v) =
                   IF was.vcp_cbs[k].detached THEN 1 ELSE 0

====
